---- MODULE Spec2Model ----
(***************************************************************************)
(* Model of the rating-menu and hierarchical-menu connectors               *)
(* (src/src/connectors/rating-menu/connectRatingMenu.js and                *)
(* src/src/connectors/hierarchical-menu/connectHierarchicalMenu.js).       *)
(*                                                                         *)
(* JavaScript values that may be `undefined` are records with a `type`     *)
(* field.  Facet values are strings, as the search-parameters library      *)
(* stores them ('' + value); Number() parses them back.                    *)
(***************************************************************************)
EXTENDS Integers, Sequences, FiniteSets, TLC

\* ------------------------------------------------------------ bounds
\* largest explicit `max` option a rating widget is created with
MaxMax == 3
\* number of refine calls (hence searches) explored per behaviour
MaxCalls == 3
\* number of facet values one results object reports (ladder inputs)
MaxFacets == 2
\* largest count of one reported facet value (ladder inputs)
MaxCount == 2
\* init, render and toggleShowMore() calls that reach renderFn or throw,
\* explored per behaviour
MaxRenders == 4

\* ------------------------------------------------------------ JavaScript values
Undefined == [type |-> "undefined"]
Num(n) == [type |-> "number", value |-> n]
\* typeof x === 'number'
IsNumber(x) == x.type = "number"
\* a string value
Str(value) == [type |-> "string", value |-> value]
\* ToBoolean for undefined / number / string: undefined, 0 and '' are falsy
Truthy(x) ==
    CASE x.type = "number" -> x.value # 0
      [] x.type = "string" -> x.value # ""
      [] OTHER             -> FALSE
\* {} : an object with no key
EmptyObject == [k \in {} |-> 0]
\* a function value, told from the others by its name
Function(name) == [type |-> "function", name |-> name]
\* typeof x === 'function'
IsFunction(x) == x.type = "function"
\* noop of lib/utils: a function that does nothing
noop == Function("noop")
\* `unmountFn = noop`: the default applies when the argument is undefined
UnmountOf_NoDefault(unmountFn) == unmountFn
UnmountOf(unmountFn) == IF unmountFn = Undefined THEN noop ELSE unmountFn
\* an error thrown to the caller
Threw(message) == [type |-> "error", message |-> message]
IsError(x) == "type" \in DOMAIN x /\ x.type = "error"

\* integers whose decimal notation occurs as a facet value in the model
NumberDomain == -1..(2 * (MaxMax + 5))
\* '' + n
ValToString(n) == ToString(n)
\* Number(s) for the decimal notation of an integer; Number('') is 0
Number(s) == IF s = "" THEN 0 ELSE CHOOSE n \in NumberDomain : ToString(n) = s
\* Number(value) for a number or a string value
ToNumber(x) == IF x.type = "number" THEN x.value ELSE Number(x.value)
\* Math.min over a non-empty set of integers
MathMin(S) == CHOOSE m \in S : \A k \in S : m <= k
\* ------------------------------------------------------------ rating: options
\* widgetParams.attribute of the rating widget
Attribute == "grade"
\* `max = 5` default of the destructured widgetParams
DefaultMax == 5
\* the `max` the widget uses, given widgetParams.max (undefined or a number)
MaxOf(maxParam) == IF IsNumber(maxParam) THEN maxParam.value ELSE DefaultMax
\* widget type reported in events
RatingType == "ais.ratingMenu"

\* ------------------------------------------------------------ search parameters
\* SearchParameters restricted to the disjunctive facet fields the rating
\* connector reads and writes.
NewSearchParameters ==
    [disjunctiveFacets |-> {}, disjunctiveFacetsRefinements |-> EmptyObject]

isDisjunctiveFacet(state, facet) == facet \in state.disjunctiveFacets

getDisjunctiveRefinements(state, facet) ==
    IF ~isDisjunctiveFacet(state, facet) THEN <<>>
    ELSE IF facet \in DOMAIN state.disjunctiveFacetsRefinements
         THEN state.disjunctiveFacetsRefinements[facet]
         ELSE <<>>

\* obj with obj[key] = val (spread + computed key)
WithKey(obj, key, val) ==
    [k \in (DOMAIN obj) \cup {key} |-> IF k = key THEN val ELSE obj[k]]
\* obj without key
WithoutKey(obj, key) == [k \in (DOMAIN obj) \ {key} |-> obj[k]]

SeqRange(s) == {s[i] : i \in 1..Len(s)}

addDisjunctiveFacet(state, facet) ==
    [state EXCEPT !.disjunctiveFacets = @ \cup {facet}]

\* removeDisjunctiveFacetRefinement(facet) with no value: the attribute's list
\* is emptied, its key is kept
removeDisjunctiveFacetRefinement(state, facet) ==
    IF Len(getDisjunctiveRefinements(state, facet)) = 0 THEN state
    ELSE [state EXCEPT !.disjunctiveFacetsRefinements = WithKey(@, facet, <<>>)]

\* addDisjunctiveFacetRefinement(facet, value): appends '' + value unless present
addDisjunctiveFacetRefinement(state, facet, value) ==
    LET refs == state.disjunctiveFacetsRefinements
        old  == IF facet \in DOMAIN refs THEN refs[facet] ELSE <<>>
    IN  IF ValToString(value) \in SeqRange(old) THEN state
        ELSE [state EXCEPT !.disjunctiveFacetsRefinements =
                  WithKey(refs, facet, Append(old, ValToString(value)))]

\* clearRefinements(attribute): the attribute's key is removed
clearRefinements_Keep(state, facet) == state
clearRefinements(state, facet) ==
    [state EXCEPT !.disjunctiveFacetsRefinements = WithoutKey(@, facet)]

\* removeDisjunctiveFacet(facet): nothing when undeclared; else the facet's
\* refinements are cleared and its declaration removed
removeDisjunctiveFacet_KeepRefinements(state, facet) ==
    [state EXCEPT !.disjunctiveFacets = @ \ {facet}]
removeDisjunctiveFacet(state, facet) ==
    IF ~isDisjunctiveFacet(state, facet) THEN state
    ELSE [clearRefinements(state, facet) EXCEPT !.disjunctiveFacets = @ \ {facet}]

\* the set of numbers refined on the attribute
RefinementSet(state) ==
    {Number(s) : s \in SeqRange(getDisjunctiveRefinements(state, Attribute))}

\* ------------------------------------------------------------ rating: getRefinedStar
getRefinedStar_Greatest(state) ==
    LET refinements == getDisjunctiveRefinements(state, Attribute)
        numbers     == {Number(refinements[i]) : i \in 1..Len(refinements)}
    IN  IF Len(refinements) = 0 THEN Undefined
        ELSE Num(CHOOSE m \in numbers : \A k \in numbers : m >= k)
getRefinedStar(state) ==
    LET refinements == getDisjunctiveRefinements(state, Attribute)
    IN  IF Len(refinements) = 0 THEN Undefined
        ELSE Num(MathMin({Number(refinements[i]) : i \in 1..Len(refinements)}))

\* ------------------------------------------------------------ rating: events
\* helper.getIndex(): the index name the helper was created with
IndexName == "indexName"
\* `eventName = 'Filter Applied'` default of the destructured arguments
DefaultEventName == "Filter Applied"

\* the object handed to instantSearchInstance.sendEventToInsights for a click
ClickEvent(facetValue, eventName) ==
    [insightsMethod |-> "clickedFilters",
     widgetType     |-> RatingType,
     eventType      |-> "click",
     payload        |-> [eventName |-> eventName,
                         index     |-> IndexName,
                         filters   |-> <<Attribute \o ">=" \o facetValue>>]]

\* sendEvent(eventType, facetValue, ...) with two arguments or more: TRUE
\* when the call reaches the sink; helperState is helper.state of the helper
\* captured by createSendEvent
SendEventEmits_AlwaysClick(helperState, eventType, facetValue) ==
    eventType = "click"
SendEventEmits(helperState, eventType, facetValue) ==
    /\ eventType = "click"
    /\ getRefinedStar(helperState) # Num(Number(facetValue))

\* the sink has not been called
NoEvent == [eventType |-> "none"]

\* sendEvent(...args), args a list of values: what the call hands to the
\* sink, or NoEvent when it returns without calling it.  A single argument
\* is handed over as it is; otherwise the arguments are eventType,
\* facetValue and eventName.
SendEvent(helperState, args) ==
    IF Len(args) = 1 THEN args[1]
    ELSE IF Len(args) = 0 THEN NoEvent
    ELSE LET eventType  == args[1].value
             facetValue == args[2].value
             eventName  == IF Len(args) >= 3 /\ args[3] # Undefined
                           THEN args[3].value ELSE DefaultEventName
         IN  IF SendEventEmits(helperState, eventType, facetValue)
             THEN ClickEvent(facetValue, eventName)
             ELSE NoEvent

\* ------------------------------------------------------------ rating: refine
\* for (let val = from; val <= max; ++val) helper.addDisjunctiveFacetRefinement
RECURSIVE AddRefinementsFrom_StopBeforeMax(_, _, _)
AddRefinementsFrom_StopBeforeMax(state, val, max) ==
    IF val >= max THEN state
    ELSE AddRefinementsFrom_StopBeforeMax(
             addDisjunctiveFacetRefinement(state, Attribute, val), val + 1, max)
RECURSIVE AddRefinementsFrom(_, _, _)
AddRefinementsFrom(state, val, max) ==
    IF val > max THEN state
    ELSE AddRefinementsFrom(
             addDisjunctiveFacetRefinement(state, Attribute, val), val + 1, max)

\* helper.state after toggleRefinement(helper, facetValue)
toggleRefinement_NeverClear(state, facetValue, max) ==
    AddRefinementsFrom(removeDisjunctiveFacetRefinement(state, Attribute),
                       Number(facetValue), max)
toggleRefinement(state, facetValue, max) ==
    LET isRefined == getRefinedStar(state) = Num(Number(facetValue))
        cleared   == removeDisjunctiveFacetRefinement(state, Attribute)
    IN  IF ~isRefined
        THEN AddRefinementsFrom(cleared, Number(facetValue), max)
        ELSE cleared

\* ------------------------------------------------------------ rating: UI state
\* uiState.ratingMenu && uiState.ratingMenu[attribute]
UiValue(uiState) ==
    IF "ratingMenu" \in DOMAIN uiState
    THEN IF Attribute \in DOMAIN uiState.ratingMenu
         THEN uiState.ratingMenu[Attribute]
         ELSE Undefined
    ELSE Undefined

getWidgetUiState(uiState, searchParameters) ==
    LET value == getRefinedStar(searchParameters)
    IN  IF ~IsNumber(value) THEN uiState
        ELSE WithKey(uiState, "ratingMenu",
                 WithKey(IF "ratingMenu" \in DOMAIN uiState
                         THEN uiState.ratingMenu ELSE EmptyObject,
                         Attribute, value))

\* range({ start, end }) of lib/utils: start, start + 1, ..., end - 1, an
\* array of end - start elements
range(start, end) == [i \in 1..(end - start) |-> start + i - 1]
\* Array(end - start) of a negative length throws a RangeError
rangeThrows(start, end) == end - start < 0

\* reduce(addDisjunctiveFacetRefinement) over a sequence of numbers
RECURSIVE ReduceAdd(_, _)
ReduceAdd(numbers, state) ==
    IF Len(numbers) = 0 THEN state
    ELSE ReduceAdd(Tail(numbers),
                   addDisjunctiveFacetRefinement(state, Attribute, Head(numbers)))

getWidgetSearchParameters_NoFacet(searchParameters, uiState, max) ==
    LET value == UiValue(uiState)
        withoutRefinements == clearRefinements(searchParameters, Attribute)
    IN  IF ~Truthy(value)
        THEN [withoutRefinements EXCEPT
                 !.disjunctiveFacetsRefinements = WithKey(@, Attribute, <<>>)]
        ELSE IF rangeThrows(ToNumber(value), max + 1)
        THEN Threw("RangeError: Invalid array length")
        ELSE ReduceAdd(range(ToNumber(value), max + 1), withoutRefinements)
getWidgetSearchParameters(searchParameters, uiState, max) ==
    LET value == UiValue(uiState)
        withoutRefinements == clearRefinements(searchParameters, Attribute)
        withDisjunctiveFacet == addDisjunctiveFacet(withoutRefinements, Attribute)
    IN  IF ~Truthy(value)
        THEN [withDisjunctiveFacet EXCEPT
                 !.disjunctiveFacetsRefinements = WithKey(@, Attribute, <<>>)]
        ELSE IF rangeThrows(ToNumber(value), max + 1)
        THEN Threw("RangeError: Invalid array length")
        ELSE ReduceAdd(range(ToNumber(value), max + 1), withDisjunctiveFacet)

\* ------------------------------------------------------------ rating: results
\* A results object: absent (`results` undefined), or the facet values it
\* reports for the attribute and its number of hits.  A facet name is a
\* rating in half units, kept as twice its value (7 stands for "3.5"), so
\* that Math.round has something to round.  `facets` maps reported names to
\* counts; hasFacet = FALSE is getFacetValues returning undefined.
NoResults == [present |-> FALSE]
Results(hasFacet, facets, nbHits) ==
    [present |-> TRUE, hasFacet |-> hasFacet, facets |-> facets, nbHits |-> nbHits]

\* Math.round of the rating kept as `twice`: halves round up
MathRound(twice) == (twice + 1) \div 2

RECURSIVE SumCounts(_, _)
SumCounts(facets, names) ==
    IF names = {} THEN 0
    ELSE LET h == CHOOSE x \in names : TRUE
         IN  facets[h] + SumCounts(facets, names \ {h})

\* the facet names whose count the forEach adds to allValues[v]
CountedAt_ExactValue(facets, v, max) ==
    {h \in DOMAIN facets : v >= 1 /\ MathRound(h) = v}
CountedAt_NoUpperGuard(facets, v, max) ==
    {h \in DOMAIN facets : MathRound(h) # 0 /\ v >= 1 /\ v <= MathRound(h)}
CountedAt(facets, v, max) ==
    {h \in DOMAIN facets :
        LET val == MathRound(h)
        IN  /\ ~(val = 0 \/ val > max)
            /\ v >= 1 /\ v <= val}

\* allValues after the forEach, for v in 0..max
AllValues(facets, max) ==
    [v \in 0..max |-> SumCounts(facets, CountedAt(facets, v, max))]

\* results.getFacetValues(attribute) || []
FacetValuesOf(results) ==
    IF results.hasFacet THEN results.facets ELSE EmptyObject

\* whether the loop over stars skips `star`
SkipsStar_RefinedToo(refinedStar, star, count) ==
    Truthy(refinedStar) /\ count = 0
SkipsStar(refinedStar, star, count) ==
    Truthy(refinedStar) /\ Num(star) # refinedStar /\ count = 0

RatingItem_StarsBelow(star, count, refinedStar, max) ==
    [stars     |-> [i \in 1..max |-> i < star],
     name      |-> ValToString(star),
     value     |-> ValToString(star),
     count     |-> count,
     isRefined |-> refinedStar = Num(star)]
RatingItem(star, count, refinedStar, max) ==
    [stars     |-> [i \in 1..max |-> i <= star],
     name      |-> ValToString(star),
     value     |-> ValToString(star),
     count     |-> count,
     isRefined |-> refinedStar = Num(star)]

\* facetValues pushed by getWidgetRenderState: stars max-1 down to 1
RatingItems(results, state, max) ==
    IF ~results.present THEN <<>>
    ELSE LET allValues   == AllValues(FacetValuesOf(results), max)
             refinedStar == getRefinedStar(state)
             descending  == [i \in 1..(max - 1) |-> max - i]
             Listed(star) == ~SkipsStar(refinedStar, star, allValues[star])
             kept        == SelectSeq(descending, Listed)
         IN  [i \in 1..Len(kept) |->
                 RatingItem(kept[i], allValues[kept[i]], refinedStar, max)]

\* if (!sendEvent) { sendEvent = createSendEvent(...) }: the number of event
\* senders made so far, after the test; the sender in use is the latest made
LazySendEvent_AlwaysNew(isSet, made) == made + 1
LazySendEvent(isSet, made) == IF ~isSet THEN made + 1 ELSE made

\* the render state of one call; `state` is the snapshot createURL closes
\* over, `sendEvent` the event sender in use
getWidgetRenderState(results, state, max, sendEvent) ==
    [items        |-> RatingItems(results, state, max),
     hasNoResults |-> IF results.present THEN results.nbHits = 0 ELSE TRUE,
     sendEvent    |-> sendEvent,
     results      |-> results,
     state        |-> state]

\* ------------------------------------------------------------ rating: state
VARIABLES
    rMaxParam,   \* widgetParams.max: Undefined or a number
    rState,      \* helper.state (the current SearchParameters)
    rPhase,      \* "constructed" | "active"
    rSendEvent,  \* TRUE once the closure variable sendEvent is set
    rSinkCalls,  \* calls of instantSearchInstance.sendEventToInsights
    rLastEvent,  \* payload of the latest of those calls
    rSearches,   \* calls of helper.search
    rRendered,   \* arguments of the latest renderFn call
    rOp,         \* the operation of the latest step
    rArg,        \* the facet value of the latest refine call
    rBefore,     \* the attribute's refinement list when that call was made
    rRenderCalls,    \* calls of renderFn
    rSendEventsMade, \* calls of createSendEvent; the function the closure
                     \* variable sendEvent holds is the latest one made
    rUnmountFn,      \* the unmountFn argument of connectRatingMenu
    rUnmountCalls,   \* calls of unmountFn
    rSearchedWith    \* helper.state when helper.search was last called

rVars == <<rMaxParam, rState, rPhase, rSendEvent, rSinkCalls, rLastEvent,
           rSearches, rRendered, rOp, rArg, rBefore,
           rRenderCalls, rSendEventsMade, rUnmountFn, rUnmountCalls,
           rSearchedWith>>

rMax == MaxOf(rMaxParam)

NoDelivery == [delivered |-> FALSE]
\* helper.search has not been called yet
NoSearch == [searched |-> FALSE]

\* the `max` options explored: none (the default applies) or 1..MaxMax
MaxParams == {Undefined} \cup {Num(m) : m \in 1..MaxMax}

\* facet values a user or a URL can hand to refine: "0" .. "max+1"
RefineValues(max) == {ValToString(v) : v \in 0..(max + 1)}

\* uiState objects a widget is started from: {} or {ratingMenu: {grade: T}},
\* the threshold T held as a number or, as a URL gives it, as a string
StartUiStates(max) ==
    {EmptyObject} \cup
    {[ratingMenu |-> [grade |-> Num(t)]] : t \in 1..max} \cup
    {[ratingMenu |-> [grade |-> Str(ValToString(t))]] : t \in 1..max}

\* results of the lifecycle runs: every rating 0..max reported, rating v with
\* count v + 1; for the default max, the counts {0:5,1:10,2:20,3:50,4:900,5:100}
SampleFacets(max) ==
    IF max = DefaultMax
    THEN [h \in {0, 2, 4, 6, 8, 10} |->
             CASE h = 0 -> 5 [] h = 2 -> 10 [] h = 4 -> 20
               [] h = 6 -> 50 [] h = 8 -> 900 [] h = 10 -> 100]
    ELSE [h \in {2 * v : v \in 0..max} |-> (h \div 2) + 1]

\* the ascending list of the decimal notations of a set of integers
RECURSIVE SortedStrings(_)
SortedStrings(S) ==
    IF S = {} THEN <<>>
    ELSE LET m == MathMin(S) IN <<ValToString(m)>> \o SortedStrings(S \ {m})

\* parameters with the attribute declared and any refinement list on it
AnyStartStates(max) ==
    {[disjunctiveFacets |-> {Attribute},
      disjunctiveFacetsRefinements |-> [grade |-> SortedStrings(S)]] :
         S \in SUBSET (0..(max + 1))}

\* the parameters the host starts from, and those one refine call leaves
LadderStates(max) ==
    LET start == getWidgetSearchParameters(NewSearchParameters, EmptyObject, max)
    IN  {start} \cup
        {toggleRefinement(start, ValToString(v), max) : v \in 0..(max + 1)}

\* every results object reporting at most MaxFacets facet values, named in
\* half units from 0 to max + 1, each with a count in 1..MaxCount
FacetFunctions(max) ==
    UNION {[D -> 1..MaxCount] :
              D \in {D \in SUBSET (0..(2 * (max + 1))) : Cardinality(D) <= MaxFacets}}

LifecycleResults(max) ==
    {NoResults,
     Results(FALSE, EmptyObject, 0),
     Results(TRUE, SampleFacets(max), 1)}

\* ------------------------------------------------------------ hierarchical: state
VARIABLES
    hParams,        \* widgetParams: limit, showMoreLimit, showMore
    hPhase,         \* "failed" (the factory threw) | "constructed" | "active"
    hIsShowingMore, \* this.isShowingMore
    hToggle,        \* the closure variable toggleShowMore: a no-op, or the
                    \* function made by createToggleShowMore(renderOptions)
    hRendered,      \* arguments of the latest renderFn call
    hRenderCalls,   \* calls of renderFn
    hSearches,      \* calls of helper.search
    hOp,            \* the operation of the latest step
    hSendEventsMade, \* calls of createSendEventForFacet (0: sendEvent unset)
    hUnmountFn,      \* the unmountFn argument of connectHierarchicalMenu
    hUnmountCalls,   \* calls of unmountFn
    hRefinesMade,    \* functions made for this._refine (0: _refine unset)
    hState,          \* helper.state (the current SearchParameters)
    hClicks,         \* calls sendEvent('click', facetValue) made
    hLastClick,      \* the latest of those calls, and helper.state as it was
    hSearchedWith,   \* helper.state when helper.search was last called
    hArg             \* the facet value of the latest refine call

\* what a refine call of the hierarchical widget reads and writes
hHelper == <<hState, hClicks, hLastClick, hSearchedWith, hArg>>

\* history: the number of toggleShowMore() calls that reached a bound toggle
VARIABLES hToggles
\* history: render has been called with at least two different renderOptions
VARIABLES hSuperseded
\* history: the init, render and toggleShowMore() calls that an error left
VARIABLES hThrown

hVars == <<hParams, hPhase, hIsShowingMore, hToggle, hRendered, hRenderCalls,
           hSearches, hOp, hSendEventsMade, hUnmountFn, hUnmountCalls,
           hRefinesMade, hHelper, hToggles, hSuperseded, hThrown>>

\* the latest call of a connector, factory or widget method that returns a
\* value to the host: what was called, with what, and what came back
VARIABLES cCall

\* one widget whose successive render calls are given different helpers
VARIABLES
    mKind,            \* "none" | "ratingMenu" | "hierarchicalMenu"
    mStates,          \* helper.state of each helper
    mSearches,        \* helper.search() calls of each helper
    mSendEventHelper, \* the helper the closure variable sendEvent was created with (0: not set)
    mRefineHelper,    \* the helper of refine in the latest render state (0: none yet)
    mLatest,          \* the helper of the latest getWidgetRenderState call (0: none yet)
    mClick,           \* the latest sendEvent('click', facetValue) of a refine
    mOp               \* the latest operation

mVars == <<mKind, mStates, mSearches, mSendEventHelper, mRefineHelper, mLatest,
           mClick, mOp>>

\* no such widget exists
MAbsent ==
    /\ mKind = "none"
    /\ mStates = <<>>
    /\ mSearches = <<>>
    /\ mSendEventHelper = 0
    /\ mRefineHelper = 0
    /\ mLatest = 0
    /\ mClick = [eventType |-> "none"]
    /\ mOp = "none"

vars == <<rVars, hVars, mVars, cCall>>

LadderResults(max) ==
    LifecycleResults(max) \cup
    (IF max <= MaxMax
     THEN {Results(TRUE, f, 1) : f \in FacetFunctions(max)}
     ELSE {})

\* ------------------------------------------------------------ rating: operations
\* the widget is created and the helper is started from
\* getWidgetSearchParameters(new SearchParameters({}), { uiState })
RCreated(maxParam, state, unmountFn, phase) ==
    /\ rMaxParam = maxParam
    /\ rState = state
    /\ rPhase = phase
    /\ rSendEvent = FALSE
    /\ rSinkCalls = 0
    /\ rLastEvent = NoEvent
    /\ rSearches = 0
    /\ rSearchedWith = NoSearch
    /\ rRendered = NoDelivery
    /\ rOp = "none"
    /\ rArg = ""
    /\ rBefore = <<>>
    /\ rRenderCalls = 0
    /\ rSendEventsMade = 0
    /\ rUnmountFn = unmountFn
    /\ rUnmountCalls = 0

\* connectRatingMenu(renderFn)({ attribute, max })
RInitial(maxParam, state) == RCreated(maxParam, state, Undefined, "constructed")
\* the host has created no rating widget
RAbsent == RCreated(Undefined, NewSearchParameters, Undefined, "none")

\* renderFn({...getWidgetRenderState(options), instantSearchInstance}, isFirst)
Deliver(results, state, max, sendEvent, isFirstRender) ==
    [delivered |-> TRUE, isFirstRender |-> isFirstRender] @@
    getWidgetRenderState(results, state, max, sendEvent)

RInit(results) ==
    /\ rPhase = "constructed"
    /\ rRenderCalls < MaxRenders
    /\ rPhase' = "active"
    /\ rSendEvent' = TRUE
    /\ rSendEventsMade' = LazySendEvent(rSendEvent, rSendEventsMade)
    /\ rRendered' = Deliver(results, rState, rMax, rSendEventsMade', TRUE)
    /\ rRenderCalls' = rRenderCalls + 1
    /\ rOp' = "init"
    /\ UNCHANGED <<rMaxParam, rState, rSinkCalls, rLastEvent, rSearches, rSearchedWith, rArg, rBefore,
                   rUnmountFn, rUnmountCalls>>
    /\ UNCHANGED <<hVars, cCall>>
    /\ UNCHANGED mVars

RRender(results) ==
    /\ rPhase = "active"
    /\ rRenderCalls < MaxRenders
    /\ rSendEvent' = TRUE
    /\ rSendEventsMade' = LazySendEvent(rSendEvent, rSendEventsMade)
    /\ rRendered' = Deliver(results, rState, rMax, rSendEventsMade', FALSE)
    /\ rRenderCalls' = rRenderCalls + 1
    /\ rOp' = "render"
    /\ UNCHANGED <<rMaxParam, rState, rPhase, rSinkCalls, rLastEvent, rSearches, rSearchedWith,
                   rArg, rBefore, rUnmountFn, rUnmountCalls>>
    /\ UNCHANGED <<hVars, cCall>>
    /\ UNCHANGED mVars

\* refine(facetValue) of the latest render state: toggleRefinement(helper, facetValue)
RRefine_SearchFirst(facetValue) ==
    /\ rPhase = "active"
    /\ rRendered.delivered
    /\ rSearches < MaxCalls
    /\ isDisjunctiveFacet(rState, Attribute)
    /\ LET event == SendEvent(rState, <<Str("click"), Str(facetValue)>>)
       IN  /\ rSinkCalls' = IF event # NoEvent THEN rSinkCalls + 1 ELSE rSinkCalls
           /\ rLastEvent' = IF event # NoEvent THEN event ELSE rLastEvent
    /\ rState' = toggleRefinement(rState, facetValue, rMax)
    /\ rSearches' = rSearches + 1
    /\ rSearchedWith' = [searched |-> TRUE,
                         state |-> removeDisjunctiveFacetRefinement(rState, Attribute)]
    /\ rOp' = "refine"
    /\ rArg' = facetValue
    /\ rBefore' = getDisjunctiveRefinements(rState, Attribute)
    /\ UNCHANGED <<rMaxParam, rPhase, rSendEvent, rRendered,
                   rRenderCalls, rSendEventsMade, rUnmountFn, rUnmountCalls>>
    /\ UNCHANGED <<hVars, cCall>>
    /\ UNCHANGED mVars
RRefine(facetValue) ==
    /\ rPhase = "active"
    /\ rRendered.delivered
    /\ rSearches < MaxCalls
    /\ isDisjunctiveFacet(rState, Attribute)
    /\ LET event == SendEvent(rState, <<Str("click"), Str(facetValue)>>)
       IN  /\ rSinkCalls' = IF event # NoEvent THEN rSinkCalls + 1 ELSE rSinkCalls
           /\ rLastEvent' = IF event # NoEvent THEN event ELSE rLastEvent
    /\ rState' = toggleRefinement(rState, facetValue, rMax)
    /\ rSearches' = rSearches + 1
    /\ rSearchedWith' = [searched |-> TRUE, state |-> rState']
    /\ rOp' = "refine"
    /\ rArg' = facetValue
    /\ rBefore' = getDisjunctiveRefinements(rState, Attribute)
    /\ UNCHANGED <<rMaxParam, rPhase, rSendEvent, rRendered,
                   rRenderCalls, rSendEventsMade, rUnmountFn, rUnmountCalls>>
    /\ UNCHANGED <<hVars, cCall>>
    /\ UNCHANGED mVars

\* refine(facetValue) on a helper whose parameters do not declare the
\* attribute: the click is sent, then helper.removeDisjunctiveFacetRefinement
\* throws, before any refinement is added or any search made
RRefineThrows(facetValue) ==
    /\ rPhase = "active"
    /\ rRendered.delivered
    /\ rSinkCalls < MaxCalls
    /\ ~isDisjunctiveFacet(rState, Attribute)
    /\ LET event == SendEvent(rState, <<Str("click"), Str(facetValue)>>)
       IN  /\ rSinkCalls' = IF event # NoEvent THEN rSinkCalls + 1 ELSE rSinkCalls
           /\ rLastEvent' = IF event # NoEvent THEN event ELSE rLastEvent
    /\ rOp' = "refineThrew"
    /\ rArg' = facetValue
    /\ rBefore' = getDisjunctiveRefinements(rState, Attribute)
    /\ UNCHANGED <<rMaxParam, rState, rPhase, rSendEvent, rSearches, rSearchedWith,
                   rRendered, rRenderCalls, rSendEventsMade, rUnmountFn,
                   rUnmountCalls>>
    /\ UNCHANGED <<hVars, cCall>>
    /\ UNCHANGED mVars

\* the argument lists a renderer calls sendEvent with: one custom payload or
\* one event name, a click on a value with or without an event name, or
\* another event type
SendEventArgs ==
    {<<[insightsMethod |-> "viewedObjectIDs", custom |-> TRUE]>>,
     <<Str("conversion")>>,
     <<Str("click"), Str("2")>>,
     <<Str("click"), Str("2"), Str("Rating Clicked")>>,
     <<Str("view"), Str("2")>>}

\* sendEvent(...args) of the latest render state, called by the renderer
RSendEvent(args) ==
    /\ rRendered.delivered
    /\ rSinkCalls < MaxCalls
    /\ LET event == SendEvent(rState, args)
       IN  /\ rSinkCalls' = IF event # NoEvent THEN rSinkCalls + 1 ELSE rSinkCalls
           /\ rLastEvent' = IF event # NoEvent THEN event ELSE rLastEvent
    /\ rOp' = "sendEvent"
    /\ UNCHANGED <<rMaxParam, rState, rPhase, rSendEvent, rSearches, rSearchedWith,
                   rRendered, rArg, rBefore, rRenderCalls, rSendEventsMade,
                   rUnmountFn, rUnmountCalls>>
    /\ UNCHANGED <<hVars, cCall>>
    /\ UNCHANGED mVars

\* ------------------------------------------------------------ hierarchical: options
\* largest `limit` option explored (showMoreLimit goes one further)
MaxLimit == 2
\* longest list of facet values at one level of the results tree
MaxWidth == 3

\* widgetParams.attributes: one attribute per level
Attributes == <<"cat_lvl0", "cat_lvl1">>
\* `separator = ' > '` default
Separator == " > "
\* const [hierarchicalFacetName] = attributes
HierarchicalFacetName == Attributes[1]

\* the options explored: every limit, showMoreLimit, showMore combination
HierParams ==
    [limit : 1..MaxLimit, showMoreLimit : 1..(MaxLimit + 1), showMore : BOOLEAN]

\* the factory throws: showMore === true && showMoreLimit <= limit
\* (attributes is a non-empty array in every explored configuration)
ConstructionThrows_AnyBound(widgetParams) ==
    widgetParams.showMore /\ widgetParams.showMoreLimit < widgetParams.limit
ConstructionThrows(widgetParams) ==
    \/ Len(Attributes) = 0
    \/ widgetParams.showMore /\ widgetParams.showMoreLimit <= widgetParams.limit

\* getLimit()
getLimit(isShowingMore, widgetParams) ==
    IF isShowingMore THEN widgetParams.showMoreLimit ELSE widgetParams.limit

\* ------------------------------------------------------------ hierarchical: results
\* `data` of a facet value: an array of child values, or null
NotArray == [isArray |-> FALSE]
Array(items) == [isArray |-> TRUE, items |-> items]

PathOf(prefix, name) == IF prefix = "" THEN name ELSE prefix \o Separator \o name

\* one facet value as the results object reports it
FacetNode(i, prefix, data, isRefined) ==
    [name      |-> "c" \o ToString(i),
     path      |-> PathOf(prefix, "c" \o ToString(i)),
     count     |-> i,
     isRefined |-> isRefined,
     data      |-> data]

PlainLevel(n, prefix) == [i \in 1..n |-> FacetNode(i, prefix, NotArray, FALSE)]

\* the lists of facet values of one level: up to MaxWidth values, of which
\* at most one (the refined one) carries the next level
RECURSIVE Levels(_, _)
Levels(depth, prefix) ==
    {PlainLevel(n, prefix) : n \in 0..MaxWidth} \cup
    (IF depth <= 1 THEN {}
     ELSE UNION {UNION {
              {[PlainLevel(n, prefix) EXCEPT
                   ![i] = FacetNode(i, prefix, Array(c), TRUE)] :
                  c \in Levels(depth - 1, PathOf(prefix, "c" \o ToString(i)))} :
              i \in 1..n} : n \in 1..MaxWidth})

HierFacetValues == Levels(Len(Attributes), "")

\* results whose getFacetValues(hierarchicalFacetName) returns an object with
\* this `data`
HierResult(data) == [present |-> TRUE, hasFacet |-> TRUE, data |-> data]
\* results that hold no entry for the facet: getFacetValues returns undefined
MissingFacetResults == [present |-> TRUE, hasFacet |-> FALSE, data |-> NotArray]

\* results: absent, holding the `data` of getFacetValues(hierarchicalFacetName),
\* or holding no entry for the facet
HierResults ==
    {NoResults} \cup {HierResult(Array(l)) : l \in HierFacetValues}
      \cup {HierResult(NotArray)} \cup {MissingFacetResults}

\* state.maxValuesPerFacet of a render context
MaxValuesPerFacetChoices == {Undefined, Num(MaxLimit)}

HierContexts ==
    [results : HierResults, maxValuesPerFacet : MaxValuesPerFacetChoices]

\* ------------------------------------------------------------ hierarchical: projection
\* slice(start, end) of an array or a string: a negative position counts
\* from the end, a position past the end is the end
Slice(s, start, end) ==
    LET Position(p) == IF p < 0
                       THEN (IF Len(s) + p < 0 THEN 0 ELSE Len(s) + p)
                       ELSE (IF p > Len(s) THEN Len(s) ELSE p)
    IN  SubSeq(s, Position(start) + 1, Position(end))
RECURSIVE PrepareFacetValues_TopOnly(_, _)
PrepareFacetValues_TopOnly(facetValues, limit) ==
    LET kept == Slice(facetValues, 0, limit)
    IN  [i \in 1..Len(kept) |->
            [label     |-> kept[i].name,
             value     |-> kept[i].path,
             count     |-> kept[i].count,
             isRefined |-> kept[i].isRefined,
             data      |-> IF kept[i].data.isArray
                           THEN Array(PrepareFacetValues_TopOnly(
                                          kept[i].data.items, Len(kept[i].data.items)))
                           ELSE kept[i].data]]
\* _prepareFacetValues(facetValues) with getLimit() = limit
RECURSIVE PrepareFacetValues(_, _)
PrepareFacetValues(facetValues, limit) ==
    LET kept == Slice(facetValues, 0, limit)
    IN  [i \in 1..Len(kept) |->
            [label     |-> kept[i].name,
             value     |-> kept[i].path,
             count     |-> kept[i].count,
             isRefined |-> kept[i].isRefined,
             data      |-> IF kept[i].data.isArray
                           THEN Array(PrepareFacetValues(kept[i].data.items, limit))
                           ELSE kept[i].data]]

\* results.getFacetValues(name, { sortBy }).data || []
HierFacetValuesOf(results) ==
    IF results.present /\ results.data.isArray THEN results.data.items ELSE <<>>

\* state.maxValuesPerFacet > currentLimit (undefined > n is false)
GreaterThan(x, n) == IsNumber(x) /\ x.value > n

getHasExhaustiveItems_AlwaysStrict(results, maxValuesPerFacet, currentLimit) ==
    results.present /\ Len(HierFacetValuesOf(results)) < currentLimit
getHasExhaustiveItems(results, maxValuesPerFacet, currentLimit) ==
    IF ~results.present THEN FALSE
    ELSE IF GreaterThan(maxValuesPerFacet, currentLimit)
         THEN Len(HierFacetValuesOf(results)) <= currentLimit
         ELSE Len(HierFacetValuesOf(results)) < currentLimit

\* if (!sendEvent) { sendEvent = createSendEventForFacet(...) }
HLazySendEvent(made) == IF made = 0 THEN made + 1 ELSE made

\* if (!this._refine) { this._refine = function(facetValue) {...} }
HLazyRefine_AlwaysNew(made) == made + 1
HLazyRefine(made) == IF made = 0 THEN made + 1 ELSE made

\* getWidgetRenderState of the hierarchical widget (transformItems is the
\* identity); when getFacetValues returns undefined, reading its `.data`
\* throws a TypeError
GetFacetValuesMissing(results) == results.present /\ ~results.hasFacet
HGetWidgetRenderState(context, isShowingMore, widgetParams, sendEvent, refine) ==
    LET currentLimit == getLimit(isShowingMore, widgetParams)
    IN  IF GetFacetValuesMissing(context.results)
        THEN Threw("Cannot read property 'data' of undefined")
        ELSE
        [items |-> IF context.results.present
                   THEN PrepareFacetValues(HierFacetValuesOf(context.results),
                                           currentLimit)
                   ELSE <<>>,
         sendEvent |-> sendEvent,
         refine |-> refine,
         isShowingMore |-> isShowingMore,
         canToggleShowMore |->
             widgetParams.showMore /\
             (isShowingMore \/
              ~getHasExhaustiveItems(context.results, context.maxValuesPerFacet,
                                     currentLimit)),
         context |-> context]

\* ------------------------------------------------------------ hierarchical: search parameters
\* SearchParameters restricted to the fields the hierarchical connector reads
\* and writes: the declared hierarchical facets, their refinements and
\* maxValuesPerFacet.
NewHierParameters ==
    [hierarchicalFacets |-> <<>>,
     hierarchicalFacetsRefinements |-> EmptyObject,
     maxValuesPerFacet |-> Undefined]

\* the labels a breadcrumb is made of, and the separators a facet is declared with
Labels == {"Shoes", "Sneakers"}
Separators == {Separator, ">", "/"}

\* array.join(separator)
RECURSIVE Join(_, _)
Join(parts, separator) ==
    IF Len(parts) = 0 THEN ""
    ELSE IF Len(parts) = 1 THEN parts[1]
    ELSE parts[1] \o separator \o Join(Tail(parts), separator)

\* string.indexOf(search): the 0-based position of the first occurrence, or -1
IndexOf(string, search) ==
    LET hits == {i \in 0..(Len(string) - Len(search)) :
                    SubSeq(string, i + 1, i + Len(search)) = search}
    IN  IF hits = {} THEN -1 ELSE MathMin(hits)

\* string.lastIndexOf(search): the position of the last occurrence, or -1
LastIndexOf(string, search) ==
    LET hits == {i \in 0..(Len(string) - Len(search)) :
                    SubSeq(string, i + 1, i + Len(search)) = search}
    IN  IF hits = {} THEN -1 ELSE CHOOSE m \in hits : \A k \in hits : m >= k

\* string.split(separator): the pieces between the occurrences of the
\* separator, taken from the left; with the empty separator, the characters
RECURSIVE Split(_, _)
Split(string, separator) ==
    IF separator = ""
    THEN [i \in 1..Len(string) |-> SubSeq(string, i, i)]
    ELSE LET i == IndexOf(string, separator)
         IN  IF i = -1 THEN <<string>>
             ELSE <<SubSeq(string, 1, i)>> \o
                  Split(SubSeq(string, i + Len(separator) + 1, Len(string)),
                        separator)

\* the white space and line terminators string.trim() strips, of the
\* characters a string here can hold, in this order: space, tab, line feed,
\* carriage return, form feed, vertical tab (U+000B), no-break space
\* (U+00A0), ogham space mark (U+1680), zero width no-break space (U+FEFF).
\* The last four stand in the strings as the characters themselves.  The
\* spaces U+2000..U+200A, U+202F, U+205F, U+3000 and the separators U+2028,
\* U+2029 cannot be written in a string here.
WhiteSpace == {" ", "\t", "\n", "\r", "\f", "", " ", " ", "﻿"}

\* string.trim(): the string without the white space at its ends
RECURSIVE Trim(_)
Trim(string) ==
    IF Len(string) > 0 /\ SubSeq(string, 1, 1) \in WhiteSpace
    THEN Trim(SubSeq(string, 2, Len(string)))
    ELSE IF Len(string) > 0 /\ SubSeq(string, Len(string), Len(string)) \in WhiteSpace
    THEN Trim(SubSeq(string, 1, Len(string) - 1))
    ELSE string

isHierarchicalFacet(state, name) ==
    \E i \in 1..Len(state.hierarchicalFacets) : state.hierarchicalFacets[i].name = name

\* the first declared facet of that name
getHierarchicalFacetByName(state, name) ==
    LET i == CHOOSE i \in 1..Len(state.hierarchicalFacets) :
                 /\ state.hierarchicalFacets[i].name = name
                 /\ \A j \in 1..(i - 1) : state.hierarchicalFacets[j].name # name
    IN  state.hierarchicalFacets[i]

\* hierarchicalFacetsRefinements[name] || []
getHierarchicalRefinement(state, name) ==
    IF name \in DOMAIN state.hierarchicalFacetsRefinements
    THEN state.hierarchicalFacetsRefinements[name]
    ELSE <<>>

\* the refined path of the facet, split on the separator the facet is
\* declared with, each part trimmed; [] when undeclared or not refined
getHierarchicalFacetBreadcrumb(state, name) ==
    IF ~isHierarchicalFacet(state, name) THEN <<>>
    ELSE LET refinements == getHierarchicalRefinement(state, name)
         IN  IF Len(refinements) = 0 \/ refinements[1] = "" THEN <<>>
             ELSE LET path == Split(refinements[1],
                                    getHierarchicalFacetByName(state, name).separator)
                  IN  [i \in 1..Len(path) |-> Trim(path[i])]

\* getWidgetUiState of the hierarchical widget
HGetWidgetUiState_DropSiblings(uiState, searchParameters) ==
    LET path == getHierarchicalFacetBreadcrumb(searchParameters, HierarchicalFacetName)
    IN  IF Len(path) = 0 THEN uiState
        ELSE WithKey(uiState, "hierarchicalMenu",
                     WithKey(EmptyObject, HierarchicalFacetName, path))
HGetWidgetUiState(uiState, searchParameters) ==
    LET path == getHierarchicalFacetBreadcrumb(searchParameters, HierarchicalFacetName)
    IN  IF Len(path) = 0 THEN uiState
        ELSE WithKey(uiState, "hierarchicalMenu",
                 WithKey(IF "hierarchicalMenu" \in DOMAIN uiState
                         THEN uiState.hierarchicalMenu ELSE EmptyObject,
                         HierarchicalFacetName, path))

\* a facet declaration { name, attributes, separator, rootPath, showParentLevel }
\* with the widget's attributes and the defaults rootPath = null,
\* showParentLevel = true
HierFacet(name, separator) ==
    [name |-> name, attributes |-> Attributes, separator |-> separator,
     rootPath |-> "null", showParentLevel |-> TRUE]

\* clearRefinements(name) on the hierarchical refinements: the key is removed
clearHierarchicalRefinements(state, name) ==
    [state EXCEPT !.hierarchicalFacetsRefinements = WithoutKey(@, name)]

\* removeHierarchicalFacet(name): nothing when undeclared; else the facet's
\* refinements are cleared and its declarations removed
removeHierarchicalFacet_KeepRefinements(state, name) ==
    [state EXCEPT !.hierarchicalFacets =
        SelectSeq(@, LAMBDA facet : facet.name # name)]
removeHierarchicalFacet(state, name) ==
    IF ~isHierarchicalFacet(state, name) THEN state
    ELSE [clearHierarchicalRefinements(state, name) EXCEPT
             !.hierarchicalFacets =
                 SelectSeq(@, LAMBDA facet : facet.name # name)]

\* addHierarchicalFacet(facet): throws when the name is declared already
addHierarchicalFacet(state, facet) ==
    IF isHierarchicalFacet(state, facet.name)
    THEN Threw("Cannot declare two hierarchical facets with the same name")
    ELSE [state EXCEPT !.hierarchicalFacets = Append(@, facet)]

\* isHierarchicalFacetRefined(name) with no value
isHierarchicalFacetRefined(state, name) ==
    /\ isHierarchicalFacet(state, name)
    /\ Len(getHierarchicalRefinement(state, name)) > 0

\* addHierarchicalFacetRefinement(name, path): throws when the facet is
\* refined already or not declared; else its refinements are [path]
addHierarchicalFacetRefinement(state, name, path) ==
    IF isHierarchicalFacetRefined(state, name)
    THEN Threw("already refined")
    ELSE IF ~isHierarchicalFacet(state, name)
    THEN Threw("not defined in the hierarchicalFacets attribute")
    ELSE [state EXCEPT !.hierarchicalFacetsRefinements = WithKey(@, name, <<path>>)]

\* uiState.hierarchicalMenu && uiState.hierarchicalMenu[hierarchicalFacetName]
HUiValue(uiState) ==
    IF "hierarchicalMenu" \in DOMAIN uiState
    THEN IF HierarchicalFacetName \in DOMAIN uiState.hierarchicalMenu
         THEN [type |-> "array", items |-> uiState.hierarchicalMenu[HierarchicalFacetName]]
         ELSE Undefined
    ELSE Undefined

\* x || 0 for undefined / number
OrZero(x) == IF Truthy(x) THEN x.value ELSE 0
\* Math.max of two integers
MathMax_Second(a, b) == b
MathMax(a, b) == IF a >= b THEN a ELSE b

\* warning(condition, message) of lib/utils: the message is raised when the
\* condition does not hold
warning(condition) == ~condition

\* the consistency warning of getWidgetSearchParameters: the facet is declared
\* already and differs in attributes, separator or rootPath
HWarns_SeparatorOnly(searchParameters) ==
    /\ isHierarchicalFacet(searchParameters, HierarchicalFacetName)
    /\ LET facet == getHierarchicalFacetByName(searchParameters, HierarchicalFacetName)
       IN  warning(facet.separator = Separator)
HWarns(searchParameters) ==
    /\ isHierarchicalFacet(searchParameters, HierarchicalFacetName)
    /\ LET facet == getHierarchicalFacetByName(searchParameters, HierarchicalFacetName)
       IN  warning(/\ facet.attributes = Attributes
                   /\ facet.separator = Separator
                   /\ facet.rootPath = "null")

\* getWidgetSearchParameters of the hierarchical widget: the facet is declared
\* anew with the widget's options (the call of addHierarchicalFacet follows
\* removeHierarchicalFacet, so the name is free)
HGetWidgetSearchParameters_Append(searchParameters, uiState, widgetParams) ==
    LET values == HUiValue(uiState)
        old == getHierarchicalRefinement(searchParameters, HierarchicalFacetName)
        withFacetConfiguration ==
            addHierarchicalFacet(
                removeHierarchicalFacet(searchParameters, HierarchicalFacetName),
                HierFacet(HierarchicalFacetName, Separator))
    IN  [withFacetConfiguration EXCEPT
            !.maxValuesPerFacet = Num(MathMax(OrZero(@),
                 IF widgetParams.showMore THEN widgetParams.showMoreLimit
                                          ELSE widgetParams.limit)),
            !.hierarchicalFacetsRefinements =
                 WithKey(@, HierarchicalFacetName,
                         IF values = Undefined THEN <<>>
                         ELSE old \o <<Join(values.items, Separator)>>)]
HGetWidgetSearchParameters(searchParameters, uiState, widgetParams) ==
    LET values == HUiValue(uiState)
        withFacetConfiguration ==
            addHierarchicalFacet(
                removeHierarchicalFacet(searchParameters, HierarchicalFacetName),
                HierFacet(HierarchicalFacetName, Separator))
        currentMaxValuesPerFacet == OrZero(withFacetConfiguration.maxValuesPerFacet)
        nextMaxValuesPerFacet ==
            MathMax(currentMaxValuesPerFacet,
                    IF widgetParams.showMore THEN widgetParams.showMoreLimit
                                             ELSE widgetParams.limit)
        withMaxValuesPerFacet ==
            [withFacetConfiguration EXCEPT
                !.maxValuesPerFacet = Num(nextMaxValuesPerFacet)]
    IN  IF values = Undefined
        THEN [withMaxValuesPerFacet EXCEPT
                 !.hierarchicalFacetsRefinements =
                     WithKey(@, HierarchicalFacetName, <<>>)]
        ELSE addHierarchicalFacetRefinement(withMaxValuesPerFacet,
                 HierarchicalFacetName, Join(values.items, Separator))

\* ------------------------------------------------------------ hierarchical: operations
\* let toggleShowMore = () => {}
NoopToggle == [bound |-> FALSE]
\* createToggleShowMore(renderOptions)
createToggleShowMore(renderOptions) == [bound |-> TRUE, renderOptions |-> renderOptions]

\* no refine call has been made yet
NoClick == [eventType |-> "none"]

\* the parameters the host starts the helper from
HStartState(widgetParams, uiState) ==
    HGetWidgetSearchParameters(NewHierParameters, uiState, widgetParams)

\* the widget factory is called with widgetParams, the helper holds `state`
HCreatedOn(widgetParams, unmountFn, phase, state) ==
    /\ hParams = widgetParams
    /\ hRefinesMade = 0
    /\ hState = state
    /\ hClicks = 0
    /\ hLastClick = NoClick
    /\ hSearchedWith = NoSearch
    /\ hArg = ""
    /\ hPhase = phase
    /\ hIsShowingMore = FALSE
    /\ hToggles = 0
    /\ hSuperseded = FALSE
    /\ hThrown = 0
    /\ hToggle = NoopToggle
    /\ hRendered = NoDelivery
    /\ hRenderCalls = 0
    /\ hSearches = 0
    /\ hOp = "none"
    /\ hSendEventsMade = 0
    /\ hUnmountFn = unmountFn
    /\ hUnmountCalls = 0

HCreated(widgetParams, unmountFn, phase) ==
    HCreatedOn(widgetParams, unmountFn, phase, HStartState(widgetParams, EmptyObject))

\* connectHierarchicalMenu(renderFn)(widgetParams)
HInitial(widgetParams) ==
    HCreated(widgetParams, Undefined,
             IF ConstructionThrows(widgetParams) THEN "failed" ELSE "constructed")
\* the host has created no hierarchical widget
HAbsent == HCreated([limit |-> 1, showMoreLimit |-> 2, showMore |-> FALSE],
                    Undefined, "none")

\* renderFn({...this.getWidgetRenderState(options), instantSearchInstance},
\* isFirstRender): the arguments of the latest renderFn call afterwards, given
\* those before (`rendered`); when getWidgetRenderState throws, init and
\* render are left before renderFn is called
HDeliver(rendered, context, isShowingMore, widgetParams, sendEvent, refine, isFirstRender) ==
    IF GetFacetValuesMissing(context.results) THEN rendered
    ELSE [delivered |-> TRUE, isFirstRender |-> isFirstRender] @@
         HGetWidgetRenderState(context, isShowingMore, widgetParams, sendEvent,
                               refine)
\* the number of renderFn calls after init or render, given the number before
HRenderFnCalls(calls, context) ==
    IF GetFacetValuesMissing(context.results) THEN calls ELSE calls + 1

\* the number of init, render and toggleShowMore() calls an error left, given
\* the number before the call
HThrownCalls(calls, context) ==
    IF GetFacetValuesMissing(context.results) THEN calls + 1 ELSE calls

HInit(initOptions) ==
    /\ hPhase = "constructed"
    /\ hRenderCalls + hThrown < MaxRenders
    /\ hPhase' = "active"
    /\ hSendEventsMade' = HLazySendEvent(hSendEventsMade)
    /\ hRefinesMade' = HLazyRefine(hRefinesMade)
    /\ hRendered' = HDeliver(hRendered, initOptions, hIsShowingMore, hParams,
                             hSendEventsMade', hRefinesMade', TRUE)
    /\ UNCHANGED hHelper
    /\ hRenderCalls' = HRenderFnCalls(hRenderCalls, initOptions)
    /\ hOp' = "init"
    /\ UNCHANGED <<hParams, hIsShowingMore, hToggle, hSearches,
                   hUnmountFn, hUnmountCalls>>
    /\ UNCHANGED <<hToggles, hSuperseded>>
    /\ hThrown' = HThrownCalls(hThrown, initOptions)
    /\ UNCHANGED <<rVars, cCall>>
    /\ UNCHANGED mVars

HRender_KeepToggle(renderOptions) ==
    /\ hPhase = "active"
    /\ hRenderCalls + hThrown < MaxRenders
    /\ hToggle' = IF hToggle.bound THEN hToggle
                  ELSE createToggleShowMore(renderOptions)
    /\ hSendEventsMade' = HLazySendEvent(hSendEventsMade)
    /\ hRefinesMade' = HLazyRefine(hRefinesMade)
    /\ hRendered' = HDeliver(hRendered, renderOptions, hIsShowingMore, hParams,
                             hSendEventsMade', hRefinesMade', FALSE)
    /\ UNCHANGED hHelper
    /\ hRenderCalls' = HRenderFnCalls(hRenderCalls, renderOptions)
    /\ hOp' = "render"
    /\ UNCHANGED <<hParams, hPhase, hIsShowingMore, hSearches,
                   hUnmountFn, hUnmountCalls>>
    /\ UNCHANGED hToggles
    /\ hThrown' = HThrownCalls(hThrown, renderOptions)
    /\ hSuperseded' = (hSuperseded \/ (hToggle.bound /\ hToggle.renderOptions # renderOptions))
    /\ UNCHANGED <<rVars, cCall>>
    /\ UNCHANGED mVars
HRender_ResetFlag(renderOptions) ==
    /\ hPhase = "active"
    /\ hRenderCalls + hThrown < MaxRenders
    /\ hToggle' = createToggleShowMore(renderOptions)
    /\ hSendEventsMade' = HLazySendEvent(hSendEventsMade)
    /\ hRefinesMade' = HLazyRefine(hRefinesMade)
    /\ hIsShowingMore' = FALSE
    /\ hRendered' = HDeliver(hRendered, renderOptions, FALSE, hParams,
                             hSendEventsMade', hRefinesMade', FALSE)
    /\ UNCHANGED hHelper
    /\ hRenderCalls' = HRenderFnCalls(hRenderCalls, renderOptions)
    /\ hOp' = "render"
    /\ UNCHANGED <<hParams, hPhase, hSearches, hUnmountFn, hUnmountCalls>>
    /\ UNCHANGED hToggles
    /\ hThrown' = HThrownCalls(hThrown, renderOptions)
    /\ hSuperseded' = (hSuperseded \/ (hToggle.bound /\ hToggle.renderOptions # renderOptions))
    /\ UNCHANGED <<rVars, cCall>>
    /\ UNCHANGED mVars
HRender(renderOptions) ==
    /\ hPhase = "active"
    /\ hRenderCalls + hThrown < MaxRenders
    /\ hToggle' = createToggleShowMore(renderOptions)
    /\ hSendEventsMade' = HLazySendEvent(hSendEventsMade)
    /\ hRefinesMade' = HLazyRefine(hRefinesMade)
    /\ hRendered' = HDeliver(hRendered, renderOptions, hIsShowingMore, hParams,
                             hSendEventsMade', hRefinesMade', FALSE)
    /\ UNCHANGED hHelper
    /\ hRenderCalls' = HRenderFnCalls(hRenderCalls, renderOptions)
    /\ hOp' = "render"
    /\ UNCHANGED <<hParams, hPhase, hIsShowingMore, hSearches,
                   hUnmountFn, hUnmountCalls>>
    /\ UNCHANGED hToggles
    /\ hThrown' = HThrownCalls(hThrown, renderOptions)
    /\ hSuperseded' = (hSuperseded \/ (hToggle.bound /\ hToggle.renderOptions # renderOptions))
    /\ UNCHANGED <<rVars, cCall>>
    /\ UNCHANGED mVars

\* toggleShowMore() of a render state: cachedToggleShowMore calls the closure
\* variable, which is a no-op until render has replaced it
HToggleShowMore ==
    /\ hPhase = "active"
    /\ hRendered.delivered
    /\ IF hToggle.bound
       THEN /\ hRenderCalls + hThrown < MaxRenders
            /\ hThrown' = HThrownCalls(hThrown, hToggle.renderOptions)
            /\ hIsShowingMore' = ~hIsShowingMore
            /\ hToggles' = hToggles + 1
            /\ UNCHANGED hSuperseded
            /\ hToggle' = createToggleShowMore(hToggle.renderOptions)
            /\ hSendEventsMade' = HLazySendEvent(hSendEventsMade)
            /\ hRefinesMade' = HLazyRefine(hRefinesMade)
            /\ hRendered' = HDeliver(hRendered, hToggle.renderOptions, ~hIsShowingMore,
                                     hParams, hSendEventsMade', hRefinesMade', FALSE)
            /\ hRenderCalls' = HRenderFnCalls(hRenderCalls, hToggle.renderOptions)
       ELSE UNCHANGED <<hIsShowingMore, hToggle, hRendered, hRenderCalls,
                        hSendEventsMade, hRefinesMade, hToggles, hSuperseded, hThrown>>
    /\ hOp' = "toggleShowMore"
    /\ UNCHANGED hHelper
    /\ UNCHANGED <<hParams, hPhase, hSearches, hUnmountFn, hUnmountCalls>>
    /\ UNCHANGED <<rVars, cCall>>
    /\ UNCHANGED mVars

\* ------------------------------------------------------------ hierarchical: refine
\* string.indexOf(value + separator) === 0
StartsWithLevel(string, value, separator) ==
    IndexOf(string, value \o separator) = 0

\* value.slice(0, value.lastIndexOf(separator))
UpOneLevel(value, separator) ==
    Slice(value, 0, LastIndexOf(value, separator))

\* SearchParameters.toggleHierarchicalFacetRefinement(facet, value), reached
\* through helper.toggleRefinement: a value that is the refined path, or a
\* level above it, takes the refinement one level up from the value (to none
\* from the root level); any other value becomes the refinement
toggleHierarchicalFacetRefinement_Replace(state, facet, value) ==
    [state EXCEPT !.hierarchicalFacetsRefinements = WithKey(@, facet, <<value>>)]
toggleHierarchicalFacetRefinement(state, facet, value) ==
    LET separator   == getHierarchicalFacetByName(state, facet).separator
        refinements == getHierarchicalRefinement(state, facet)
        upOneOrMultipleLevel ==
            /\ Len(refinements) > 0
            /\ \/ refinements[1] = value
               \/ StartsWithLevel(refinements[1], value, separator)
        next == IF upOneOrMultipleLevel
                THEN IF IndexOf(value, separator) = -1
                     THEN <<>>
                     ELSE <<UpOneLevel(value, separator)>>
                ELSE <<value>>
    IN  [state EXCEPT !.hierarchicalFacetsRefinements = WithKey(@, facet, next)]

\* the paths handed to refine: one label per level, down to any level
HierPaths ==
    {Join(parts, Separator) :
        parts \in UNION {[1..n -> Labels] : n \in 1..Len(Attributes)}}

\* refine(facetValue) of a render state: this._refine(facetValue)
HRefine(facetValue) ==
    /\ hPhase = "active"
    /\ hRendered.delivered
    /\ hSearches < MaxCalls
    /\ isHierarchicalFacet(hState, HierarchicalFacetName)  \* the helper throws otherwise
    /\ hClicks' = hClicks + 1
    /\ hLastClick' = [eventType |-> "click", facetValue |-> facetValue,
                      state |-> hState]
    /\ hState' = toggleHierarchicalFacetRefinement(hState, HierarchicalFacetName,
                                                   facetValue)
    /\ hSearches' = hSearches + 1
    /\ hSearchedWith' = [searched |-> TRUE, state |-> hState']
    /\ hArg' = facetValue
    /\ hOp' = "refine"
    /\ UNCHANGED <<hParams, hPhase, hIsShowingMore, hToggle, hRendered, hRenderCalls,
                   hSendEventsMade, hUnmountFn, hUnmountCalls, hRefinesMade>>
    /\ UNCHANGED <<hToggles, hSuperseded, hThrown>>
    /\ UNCHANGED <<rVars, cCall>>
    /\ UNCHANGED mVars

\* sendEvent('click', facetValue) of the latest render state, called by the
\* renderer: the call reaches the event sender, the helper is left alone
HSendEvent(facetValue) ==
    /\ hRendered.delivered
    /\ hClicks < MaxCalls
    /\ hClicks' = hClicks + 1
    /\ hLastClick' = [eventType |-> "click", facetValue |-> facetValue,
                      state |-> hState]
    /\ hOp' = "sendEvent"
    /\ UNCHANGED <<hState, hSearches, hSearchedWith, hArg>>
    /\ UNCHANGED <<hParams, hPhase, hIsShowingMore, hToggle, hRendered, hRenderCalls,
                   hSendEventsMade, hUnmountFn, hUnmountCalls, hRefinesMade>>
    /\ UNCHANGED <<hToggles, hSuperseded, hThrown>>
    /\ UNCHANGED <<rVars, cCall>>
    /\ UNCHANGED mVars

\* ------------------------------------------------------------ method inputs

\* the paths a facet is refined with: one or two labels joined by a
\* separator, or two labels with a blank, a tab and a line feed around them
RefinedPaths ==
    {Join(parts, separator) :
        parts \in UNION {[1..n -> Labels] : n \in 1..Len(Attributes)},
        separator \in {Separator, "/"}}
    \cup {" Shoes >\tSneakers\n"}

\* the widget's facet as another widget declared it: with one attribute only,
\* with a root path, or without the parent level
OtherConfigurations ==
    {[HierFacet(HierarchicalFacetName, Separator) EXCEPT
         !.attributes = <<HierarchicalFacetName>>],
     [HierFacet(HierarchicalFacetName, Separator) EXCEPT !.rootPath = "Shoes"],
     [HierFacet(HierarchicalFacetName, Separator) EXCEPT !.showParentLevel = FALSE]}

\* parameters as the library's methods leave them: the widget's facet declared
\* or not, refined (only when declared) or not, another facet beside it or not
HierParameters ==
    LET other    == HierFacet("brand_lvl0", Separator)
        lists    == {<<>>} \cup {<<other>>}
        declared == {<<HierFacet(HierarchicalFacetName, separator)>> :
                        separator \in Separators}
                    \cup {<<facet>> : facet \in OtherConfigurations}
        refs(l)  == IF Len(l) = 0 THEN EmptyObject ELSE [brand_lvl0 |-> <<"Apple">>]
    IN  {[hierarchicalFacets |-> l,
          hierarchicalFacetsRefinements |-> refs(l),
          maxValuesPerFacet |-> m] :
            l \in lists, m \in MaxValuesPerFacetChoices}
        \cup
        {[hierarchicalFacets |-> l \o d,
          hierarchicalFacetsRefinements |->
              WithKey(refs(l), HierarchicalFacetName, r),
          maxValuesPerFacet |-> m] :
            l \in lists, d \in declared, m \in MaxValuesPerFacetChoices,
            r \in {<<>>} \cup {<<path>> : path \in RefinedPaths}}

\* uiState objects handed to getWidgetUiState: empty, or holding entries of
\* other widgets, beside or under the connector's namespace, or an older
\* entry of the widget itself
UiStates(namespace, attribute, old) ==
    {EmptyObject,
     [query |-> "phone"],
     WithKey([query |-> "phone"], namespace, [other |-> old]),
     WithKey(EmptyObject, namespace, WithKey([other |-> old], attribute, old))}

\* parameters handed to the rating methods: the attribute declared or not,
\* any refinement list on it, another facet refined beside it or not
RatingParameters(max) ==
    {[disjunctiveFacets |-> declared \cup other,
      disjunctiveFacetsRefinements |->
          IF S = {} /\ ~keyed
          THEN [k \in other |-> <<"Apple">>]
          ELSE WithKey([k \in other |-> <<"Apple">>], Attribute, SortedStrings(S))] :
        declared \in {{}, {Attribute}}, other \in {{}, {"brand"}},
        S \in {S \in SUBSET (0..(max + 1)) :
                  Cardinality(S) <= 2 \/ \E t \in 0..max : S = t..max},
        keyed \in BOOLEAN}

\* uiState objects handed to the rating getWidgetSearchParameters: no entry
\* for the attribute, or any threshold from 0 to max + 2, as a number or as
\* a string, or the empty string
RatingUiStates(max) ==
    UNION {UiStates("ratingMenu", Attribute, value) :
              value \in {Num(t) : t \in 0..(max + 2)} \cup
                        {Str(ValToString(t)) : t \in 0..(max + 2)} \cup {Str("")}}

\* uiState objects handed to the hierarchical getWidgetSearchParameters: no
\* entry for the facet, or a breadcrumb of zero to Len(Attributes) labels
Breadcrumbs == UNION {[1..n -> Labels] : n \in 0..Len(Attributes)}
HierUiStates ==
    UNION {UiStates("hierarchicalMenu", HierarchicalFacetName, path) :
              path \in Breadcrumbs}

\* ------------------------------------------------------------ method calls
\* widget.getWidgetSearchParameters(searchParameters, { uiState }) of the
\* hierarchical widget
HCallGetWidgetSearchParameters(searchParameters, uiState) ==
    /\ hPhase \in {"constructed", "active"}
    /\ cCall' = [method |-> "hierarchicalMenu.getWidgetSearchParameters",
                 uiState |-> uiState,
                 searchParameters |-> searchParameters,
                 warned |-> HWarns(searchParameters),
                 result |-> HGetWidgetSearchParameters(searchParameters, uiState,
                                                       hParams)]
    /\ UNCHANGED <<rVars, hVars>>
    /\ UNCHANGED mVars

\* widget.getWidgetUiState(uiState, { searchParameters }) of the rating widget
RGetWidgetUiState(uiState, searchParameters) ==
    /\ rPhase \in {"constructed", "active"}
    /\ cCall' = [method |-> "ratingMenu.getWidgetUiState",
                 uiState |-> uiState,
                 searchParameters |-> searchParameters,
                 result |-> getWidgetUiState(uiState, searchParameters)]
    /\ UNCHANGED <<rVars, hVars>>
    /\ UNCHANGED mVars

\* widget.getWidgetSearchParameters(searchParameters, { uiState }) of the
\* rating widget
RGetWidgetSearchParameters(searchParameters, uiState) ==
    /\ rPhase \in {"constructed", "active"}
    /\ cCall' = [method |-> "ratingMenu.getWidgetSearchParameters",
                 uiState |-> uiState,
                 searchParameters |-> searchParameters,
                 result |-> getWidgetSearchParameters(searchParameters, uiState, rMax)]
    /\ UNCHANGED <<rVars, hVars>>
    /\ UNCHANGED mVars

\* widget.getWidgetUiState(uiState, { searchParameters }) of the hierarchical widget
HCallGetWidgetUiState(uiState, searchParameters) ==
    /\ hPhase \in {"constructed", "active"}
    /\ cCall' = [method |-> "hierarchicalMenu.getWidgetUiState",
                 uiState |-> uiState,
                 searchParameters |-> searchParameters,
                 result |-> HGetWidgetUiState(uiState, searchParameters)]
    /\ UNCHANGED <<rVars, hVars>>
    /\ UNCHANGED mVars

\* ------------------------------------------------------------ render state and dispose calls
\* render states handed to getRenderState: empty, or holding the render
\* states of other widgets, beside or under the connector's namespace, or an
\* older render state of the widget itself
RenderStates(namespace, attribute) ==
    UiStates(namespace, attribute, [items |-> <<>>])

\* { ...renderState, [namespace]: { ...renderState[namespace], [attribute]: own } }
NamespacedRenderState_Replace(renderState, namespace, attribute, own) ==
    WithKey(EmptyObject, namespace, WithKey(EmptyObject, attribute, own))
NamespacedRenderState(renderState, namespace, attribute, own) ==
    WithKey(renderState, namespace,
            WithKey(IF namespace \in DOMAIN renderState
                    THEN renderState[namespace] ELSE EmptyObject,
                    attribute, own))

\* widget.getWidgetRenderState(renderOptions) of the rating widget
RGetWidgetRenderState(results) ==
    /\ rPhase \in {"constructed", "active"}
    /\ rSendEvent' = TRUE
    /\ rSendEventsMade' = LazySendEvent(rSendEvent, rSendEventsMade)
    /\ rOp' = "getWidgetRenderState"
    /\ cCall' = [method |-> "ratingMenu.getWidgetRenderState",
                 result |-> getWidgetRenderState(results, rState, rMax,
                                                 rSendEventsMade')]
    /\ UNCHANGED <<rMaxParam, rState, rPhase, rSinkCalls, rLastEvent, rSearches, rSearchedWith,
                   rRendered, rArg, rBefore, rRenderCalls, rUnmountFn, rUnmountCalls>>
    /\ UNCHANGED hVars
    /\ UNCHANGED mVars

\* SearchParameters.toggleRefinement(facet, value) on a disjunctive facet:
\* '' + value is removed from the facet's list when it is there, appended when
\* it is not; the other values of the list stay
toggleDisjunctiveFacetRefinement(state, facet, value) ==
    LET old == getDisjunctiveRefinements(state, facet)
    IN  IF value \in SeqRange(old)
        THEN [state EXCEPT !.disjunctiveFacetsRefinements =
                 WithKey(@, facet, SelectSeq(old, LAMBDA v : v # value))]
        ELSE [state EXCEPT !.disjunctiveFacetsRefinements =
                 WithKey(@, facet, Append(old, value))]

\* createURL(value) of the latest render state: the host's createURL is
\* handed state.toggleRefinement(attribute, value), `state` being the
\* parameters of that render
RCreateURL(value) ==
    /\ rPhase = "active"
    /\ rRendered.delivered
    /\ isDisjunctiveFacet(rRendered.state, Attribute)   \* the library throws otherwise
    /\ rOp' = "createURL"
    /\ cCall' = [method |-> "ratingMenu.createURL",
                 value |-> value,
                 state |-> rRendered.state,
                 result |-> toggleDisjunctiveFacetRefinement(rRendered.state,
                                                             Attribute, value)]
    /\ UNCHANGED <<rMaxParam, rState, rPhase, rSendEvent, rSinkCalls, rLastEvent,
                   rSearches, rSearchedWith, rRendered, rArg, rBefore, rRenderCalls,
                   rSendEventsMade, rUnmountFn, rUnmountCalls>>
    /\ UNCHANGED hVars
    /\ UNCHANGED mVars

\* widget.getRenderState(renderState, renderOptions) of the rating widget
RGetRenderState(renderState, results) ==
    /\ rPhase \in {"constructed", "active"}
    /\ rSendEvent' = TRUE
    /\ rSendEventsMade' = LazySendEvent(rSendEvent, rSendEventsMade)
    /\ rOp' = "getRenderState"
    /\ cCall' = [method |-> "ratingMenu.getRenderState",
                 renderState |-> renderState,
                 own |-> getWidgetRenderState(results, rState, rMax, rSendEventsMade'),
                 result |-> NamespacedRenderState(renderState, "ratingMenu", Attribute,
                                getWidgetRenderState(results, rState, rMax,
                                                     rSendEventsMade'))]
    /\ UNCHANGED <<rMaxParam, rState, rPhase, rSinkCalls, rLastEvent, rSearches, rSearchedWith,
                   rRendered, rArg, rBefore, rRenderCalls, rUnmountFn, rUnmountCalls>>
    /\ UNCHANGED hVars
    /\ UNCHANGED mVars

\* widget.dispose({ state }) of the rating widget: unmountFn(), then the
\* parameters without the attribute's facet are returned
RDispose_OnHelper(state) ==
    /\ rPhase \in {"constructed", "active"}
    /\ rPhase' = "disposed"
    /\ rOp' = "dispose"
    /\ rUnmountCalls' = rUnmountCalls + 1
    /\ rState' = removeDisjunctiveFacet(state, Attribute)
    /\ cCall' = [method |-> "ratingMenu.dispose", state |-> state,
                 result |-> rState']
    /\ UNCHANGED <<rMaxParam, rSendEvent, rSinkCalls, rLastEvent, rSearches, rSearchedWith,
                   rRendered, rArg, rBefore, rRenderCalls, rSendEventsMade, rUnmountFn>>
    /\ UNCHANGED hVars
    /\ UNCHANGED mVars
RDispose(state) ==
    /\ rPhase \in {"constructed", "active"}
    /\ rPhase' = "disposed"
    /\ rOp' = "dispose"
    /\ IF IsFunction(UnmountOf(rUnmountFn))
       THEN /\ rUnmountCalls' = rUnmountCalls + 1
            /\ cCall' = [method |-> "ratingMenu.dispose", state |-> state,
                         result |-> removeDisjunctiveFacet(state, Attribute)]
       ELSE /\ rUnmountCalls' = rUnmountCalls
            /\ cCall' = [method |-> "ratingMenu.dispose", state |-> state,
                         result |-> Threw("unmountFn is not a function")]
    /\ UNCHANGED <<rMaxParam, rState, rSendEvent, rSinkCalls, rLastEvent, rSearches, rSearchedWith,
                   rRendered, rArg, rBefore, rRenderCalls, rSendEventsMade, rUnmountFn>>
    /\ UNCHANGED hVars
    /\ UNCHANGED mVars

\* widget.getWidgetRenderState(renderOptions) of the hierarchical widget
HCallGetWidgetRenderState(renderOptions) ==
    /\ hPhase \in {"constructed", "active"}
    /\ hSendEventsMade' = HLazySendEvent(hSendEventsMade)
    /\ hRefinesMade' = HLazyRefine(hRefinesMade)
    /\ hOp' = "getWidgetRenderState"
    /\ cCall' = [method |-> "hierarchicalMenu.getWidgetRenderState",
                 renderOptions |-> renderOptions,
                 result |-> HGetWidgetRenderState(renderOptions, hIsShowingMore,
                                                  hParams, hSendEventsMade',
                                                  hRefinesMade')]
    /\ UNCHANGED hHelper
    /\ UNCHANGED <<hParams, hPhase, hIsShowingMore, hToggle, hRendered, hRenderCalls,
                   hSearches, hUnmountFn, hUnmountCalls>>
    /\ UNCHANGED <<hToggles, hSuperseded, hThrown>>
    /\ UNCHANGED rVars
    /\ UNCHANGED mVars

\* widget.getRenderState(renderState, renderOptions) of the hierarchical
\* widget; an error thrown by getWidgetRenderState leaves the call
HGetRenderState(renderState, renderOptions) ==
    /\ hPhase \in {"constructed", "active"}
    /\ hSendEventsMade' = HLazySendEvent(hSendEventsMade)
    /\ hRefinesMade' = HLazyRefine(hRefinesMade)
    /\ hOp' = "getRenderState"
    /\ LET own == HGetWidgetRenderState(renderOptions, hIsShowingMore, hParams,
                                        hSendEventsMade', hRefinesMade')
       IN  cCall' = [method |-> "hierarchicalMenu.getRenderState",
                     renderState |-> renderState,
                     own |-> own,
                     result |-> IF GetFacetValuesMissing(renderOptions.results)
                                THEN own
                                ELSE NamespacedRenderState(renderState,
                                         "hierarchicalMenu",
                                         HierarchicalFacetName, own)]
    /\ UNCHANGED hHelper
    /\ UNCHANGED <<hParams, hPhase, hIsShowingMore, hToggle, hRendered, hRenderCalls,
                   hSearches, hUnmountFn, hUnmountCalls>>
    /\ UNCHANGED <<hToggles, hSuperseded, hThrown>>
    /\ UNCHANGED rVars
    /\ UNCHANGED mVars

\* widget.dispose({ state }) of the hierarchical widget: unmountFn(), then the
\* parameters without the facet and without maxValuesPerFacet are returned
HDispose(state) ==
    /\ hPhase \in {"constructed", "active"}
    /\ hPhase' = "disposed"
    /\ hOp' = "dispose"
    /\ IF IsFunction(UnmountOf(hUnmountFn))
       THEN /\ hUnmountCalls' = hUnmountCalls + 1
            /\ cCall' = [method |-> "hierarchicalMenu.dispose", state |-> state,
                         result |->
                             [removeHierarchicalFacet(state, HierarchicalFacetName)
                                 EXCEPT !.maxValuesPerFacet = Undefined]]
       ELSE /\ hUnmountCalls' = hUnmountCalls
            /\ cCall' = [method |-> "hierarchicalMenu.dispose", state |-> state,
                         result |-> Threw("unmountFn is not a function")]
    /\ UNCHANGED <<hParams, hIsShowingMore, hToggle, hRendered, hRenderCalls,
                   hSearches, hSendEventsMade, hUnmountFn, hRefinesMade, hHelper>>
    /\ UNCHANGED <<hToggles, hSuperseded, hThrown>>
    /\ UNCHANGED rVars
    /\ UNCHANGED mVars

\* ------------------------------------------------------------ construction
\* the unmountFn arguments a connector is created with: none, or a hook
UnmountFns == {Undefined, Function("unmount")}
\* an array value, as an option of widgetParams
Arr(items) == [type |-> "array", items |-> items]
\* ToBoolean for undefined / string / array / function: undefined and '' are falsy
TruthyOption(x) ==
    CASE x.type = "undefined" -> FALSE
      [] x.type = "string"    -> x.value # ""
      [] OTHER                -> TRUE

\* checkRendering(renderFn, usage) of lib/utils throws unless renderFn is a function
CheckRenderingThrows(rendering) == ~IsFunction(rendering)

\* `widgetParams = {}` then `{ attribute }`: the attribute option, if any
AttributeOf(widgetParams) ==
    IF widgetParams = Undefined THEN Undefined ELSE widgetParams.attribute
\* if (!attribute) throw
RatingFactoryThrows(widgetParams) == ~TruthyOption(AttributeOf(widgetParams))

\* !attributes || !Array.isArray(attributes) || attributes.length === 0
AttributesInvalid_NoEmptyCheck(attributes) ==
    ~TruthyOption(attributes) \/ attributes.type # "array"
AttributesInvalid(attributes) ==
    \/ ~TruthyOption(attributes)
    \/ attributes.type # "array"
    \/ Len(attributes.items) = 0

\* the checks of the hierarchical factory, in order
HierFactoryThrows(widgetParams) ==
    \/ AttributesInvalid(widgetParams.attributes)
    \/ ConstructionThrows(widgetParams)

\* the widget object a factory returns
Widget(type) == [type |-> "widget", widgetType |-> type]

\* the arguments explored: a renderer that is missing, not a function, or a
\* function; an attribute that is missing, empty or given; attributes that
\* are missing, a string, an empty array or the widget's array
Renderers == {Undefined, Str("render"), Function("render")}
RatingWidgetParams ==
    {Undefined} \cup
    [attribute : {Undefined, Str(""), Str(Attribute)}, max : MaxParams]
HierWidgetParams ==
    [attributes : {Undefined, Str(HierarchicalFacetName), Arr(<<>>), Arr(Attributes)},
     limit : 1..MaxLimit, showMoreLimit : 1..(MaxLimit + 1), showMore : BOOLEAN]

\* connectRatingMenu(renderFn, unmountFn)(widgetParams)
RConnect(renderFn, unmountFn, widgetParams) ==
    /\ rPhase = "none"
    /\ rOp' = "connect"
    /\ IF CheckRenderingThrows(renderFn)
       THEN /\ rPhase' = "failed"
            /\ cCall' = [method |-> "connectRatingMenu", renderFn |-> renderFn,
                         widgetParams |-> widgetParams,
                         result |-> Threw("The render function is not valid")]
            /\ UNCHANGED <<rMaxParam, rUnmountFn>>
       ELSE IF RatingFactoryThrows(widgetParams)
       THEN /\ rPhase' = "failed"
            /\ cCall' = [method |-> "connectRatingMenu", renderFn |-> renderFn,
                         widgetParams |-> widgetParams,
                         result |-> Threw("The attribute option is required.")]
            /\ UNCHANGED <<rMaxParam, rUnmountFn>>
       ELSE /\ rPhase' = "constructed"
            /\ rMaxParam' = widgetParams.max
            /\ rUnmountFn' = unmountFn
            /\ cCall' = [method |-> "connectRatingMenu", renderFn |-> renderFn,
                         widgetParams |-> widgetParams,
                         result |-> Widget(RatingType)]
    /\ UNCHANGED <<rState, rSendEvent, rSinkCalls, rLastEvent, rSearches, rSearchedWith, rRendered,
                   rArg, rBefore, rRenderCalls, rSendEventsMade, rUnmountCalls>>
    /\ UNCHANGED hVars
    /\ UNCHANGED mVars

\* connectHierarchicalMenu(renderFn, unmountFn)(widgetParams)
HConnect(renderFn, unmountFn, widgetParams) ==
    /\ hPhase = "none"
    /\ hOp' = "connect"
    /\ IF CheckRenderingThrows(renderFn)
       THEN /\ hPhase' = "failed"
            /\ cCall' = [method |-> "connectHierarchicalMenu", renderFn |-> renderFn,
                         widgetParams |-> widgetParams,
                         result |-> Threw("The render function is not valid")]
            /\ UNCHANGED <<hParams, hUnmountFn>>
       ELSE IF HierFactoryThrows(widgetParams)
       THEN /\ hPhase' = "failed"
            /\ cCall' = [method |-> "connectHierarchicalMenu", renderFn |-> renderFn,
                         widgetParams |-> widgetParams,
                         result |-> Threw(
                             IF AttributesInvalid(widgetParams.attributes)
                             THEN "The attributes option expects an array of strings."
                             ELSE "The showMoreLimit option must be greater than limit.")]
            /\ UNCHANGED <<hParams, hUnmountFn>>
       ELSE /\ hPhase' = "constructed"
            /\ hParams' = [limit |-> widgetParams.limit,
                           showMoreLimit |-> widgetParams.showMoreLimit,
                           showMore |-> widgetParams.showMore]
            /\ hUnmountFn' = unmountFn
            /\ cCall' = [method |-> "connectHierarchicalMenu", renderFn |-> renderFn,
                         widgetParams |-> widgetParams,
                         result |-> Widget("ais.hierarchicalMenu")]
    /\ UNCHANGED <<hIsShowingMore, hToggle, hRendered, hRenderCalls, hSearches,
                   hSendEventsMade, hUnmountCalls, hRefinesMade, hHelper>>
    /\ UNCHANGED <<hToggles, hSuperseded, hThrown>>
    /\ UNCHANGED rVars
    /\ UNCHANGED mVars

\* ------------------------------------------------------------ specifications
\* the rating widget started as the host starts it
RatingStart ==
    \E maxParam \in MaxParams :
        \E uiState \in StartUiStates(MaxOf(maxParam)) :
            RInitial(maxParam,
                     getWidgetSearchParameters(NewSearchParameters, uiState,
                                               MaxOf(maxParam)))

HierIdle == HInitial([limit |-> 1, showMoreLimit |-> 2, showMore |-> FALSE])
RatingIdle ==
    RInitial(Undefined,
             getWidgetSearchParameters(NewSearchParameters, EmptyObject, DefaultMax))

\* no method call has returned anything yet
NoCall == [method |-> "none"]

Init == RatingStart /\ HierIdle /\ cCall = NoCall /\ MAbsent

Next ==
    \/ \E results \in LifecycleResults(rMax) : RInit(results)
    \/ \E results \in LifecycleResults(rMax) : RRender(results)
    \/ \E facetValue \in RefineValues(rMax) : RRefine(facetValue)

\* the rating widget through init, render and refine calls
Spec == Init /\ [][Next]_vars

\* one rating widget whose renderer calls refine and, on its own account,
\* sendEvent of the render state
InitEvents ==
    /\ \E uiState \in StartUiStates(MaxMax) :
           RInitial(Num(MaxMax),
                    getWidgetSearchParameters(NewSearchParameters, uiState, MaxMax))
    /\ HierIdle
    /\ cCall = NoCall
    /\ MAbsent

NextEvents ==
    \/ RInit(NoResults)
    \/ RRender(Results(TRUE, SampleFacets(rMax), 1))
    \/ \E facetValue \in RefineValues(rMax) : RRefine(facetValue)
    \/ \E args \in SendEventArgs : RSendEvent(args)

SpecEvents == InitEvents /\ [][NextEvents]_vars

\* the same widget on a helper whose parameters already hold any refinements
\* on the attribute (set by the host or by another widget)
\* or do not declare the attribute (a helper not created from the widget's
\* getWidgetSearchParameters)
InitAnyStart ==
    /\ \E maxParam \in MaxParams \ {Undefined} :
           \E state \in AnyStartStates(MaxOf(maxParam)) \cup {NewSearchParameters} :
               RInitial(maxParam, state)
    /\ HierIdle
    /\ cCall = NoCall
    /\ MAbsent

NextAnyStart ==
    \/ Next
    \/ \E facetValue \in RefineValues(rMax) : RRefineThrows(facetValue)

SpecAnyStart == InitAnyStart /\ [][NextAnyStart]_vars

\* the rating widget started from getWidgetSearchParameters with an empty
\* uiState, refined only with the thresholds 1..max
ThresholdValues(max) == {ValToString(t) : t \in 1..max}

InitCanonical ==
    /\ \E maxParam \in MaxParams :
           RInitial(maxParam,
                    getWidgetSearchParameters(NewSearchParameters, EmptyObject,
                                              MaxOf(maxParam)))
    /\ HierIdle
    /\ cCall = NoCall
    /\ MAbsent

NextCanonical ==
    \/ \E results \in LifecycleResults(rMax) : RInit(results)
    \/ \E results \in LifecycleResults(rMax) : RRender(results)
    \/ \E facetValue \in ThresholdValues(rMax) : RRefine(facetValue)

SpecCanonical == InitCanonical /\ [][NextCanonical]_vars

\* getWidgetRenderState of the rating widget applied to every small results
\* object, in every state one refine call can leave: init without results,
\* then one render
InitLadder ==
    /\ \E maxParam \in MaxParams :
           \E state \in LadderStates(MaxOf(maxParam)) : RInitial(maxParam, state)
    /\ HierIdle
    /\ cCall = NoCall
    /\ MAbsent

NextLadder ==
    \/ RInit(NoResults)
    \/ rOp = "init" /\ \E results \in LadderResults(rMax) : RRender(results)

SpecLadder == InitLadder /\ [][NextLadder]_vars

\* render contexts of the lifecycle runs of the hierarchical widget: no
\* results, results without values, results with MaxWidth values of which the
\* first is refined and holds MaxWidth children
LifecycleContexts ==
    {[results |-> results, maxValuesPerFacet |-> Undefined] :
        results \in
          {NoResults,
           HierResult(NotArray),
           HierResult(Array([PlainLevel(MaxWidth, "") EXCEPT
                       ![1] = FacetNode(1, "", Array(PlainLevel(MaxWidth, "c1")),
                                        TRUE)]))}}

\* a render context whose results hold no entry for the widget's facet
MissingFacetContext ==
    [results |-> MissingFacetResults, maxValuesPerFacet |-> Undefined]

InitHier ==
    /\ RatingIdle
    /\ \E widgetParams \in HierParams : HInitial(widgetParams)
    /\ cCall = NoCall
    /\ MAbsent

NextHier ==
    \/ \E initOptions \in HierContexts : HInit(initOptions)
    \/ \E renderOptions \in HierContexts : hThrown = 0 /\ HRender(renderOptions)
    \/ \E renderOptions \in LifecycleContexts \cup {MissingFacetContext} :
          hThrown > 0 /\ HRender(renderOptions)
    \/ HToggleShowMore

\* the hierarchical widget through init, render and toggleShowMore calls, on
\* any of the contexts; once a call has thrown, the renders that follow are
\* explored on the contexts of the lifecycle runs
SpecHier == InitHier /\ [][NextHier]_vars

\* one widget of either kind, whose pure methods the host calls with any
\* small uiState and parameters
InitMethods ==
    /\ \/ RatingStart /\ HAbsent
       \/ RAbsent /\ \E widgetParams \in HierParams : HInitial(widgetParams)
       \/ RAbsent /\ HAbsent
    /\ cCall = NoCall
    /\ MAbsent

\* the host makes one call on the widget it has created
NextMethods ==
    \/ /\ cCall = NoCall
       /\ \E uiState \in UiStates("ratingMenu", Attribute, Num(1)) :
              \E searchParameters \in RatingParameters(rMax) :
                  RGetWidgetUiState(uiState, searchParameters)
    \/ /\ cCall = NoCall
       /\ \E uiState \in RatingUiStates(rMax) :
              \E searchParameters \in RatingParameters(rMax) :
                  RGetWidgetSearchParameters(searchParameters, uiState)
    \/ /\ cCall = NoCall
       /\ \E uiState \in UiStates("hierarchicalMenu", HierarchicalFacetName, <<"Bags">>) :
              \E searchParameters \in HierParameters :
                  HCallGetWidgetUiState(uiState, searchParameters)
    \/ /\ cCall = NoCall
       /\ \E uiState \in HierUiStates :
              \E searchParameters \in HierParameters :
                  HCallGetWidgetSearchParameters(searchParameters, uiState)
    \/ /\ cCall = NoCall
       /\ \E state \in RatingParameters(rMax) \cup {rState} : RDispose(state)
    \/ /\ cCall = NoCall /\ hPhase = "none"
       /\ \E renderFn \in Renderers, unmountFn \in UnmountFns :
              \E widgetParams \in RatingWidgetParams :
                  RConnect(renderFn, unmountFn, widgetParams)
    \/ /\ cCall = NoCall /\ rPhase = "none"
       /\ \E renderFn \in Renderers, unmountFn \in UnmountFns :
              \E widgetParams \in HierWidgetParams :
                  HConnect(renderFn, unmountFn, widgetParams)

SpecMethods == InitMethods /\ [][NextMethods]_vars

\* one widget of either kind through init, render, toggleShowMore and
\* render-state calls, on results that may hold no entry for its attribute
InitMissingFacet ==
    /\ \/ /\ RCreated(Num(MaxMax),
                      getWidgetSearchParameters(NewSearchParameters, EmptyObject,
                                                MaxMax),
                      Undefined, "constructed")
          /\ HAbsent
       \/ /\ RAbsent
          /\ \E showMore \in BOOLEAN :
                 HCreated([limit |-> 1, showMoreLimit |-> MaxLimit,
                           showMore |-> showMore],
                          Undefined, "constructed")
    /\ cCall = NoCall
    /\ MAbsent

NextMissingFacet ==
    \/ \E results \in LifecycleResults(rMax) : RInit(results)
    \/ \E results \in LifecycleResults(rMax) : RRender(results)
    \/ \E results \in LifecycleResults(rMax) : RGetWidgetRenderState(results)
    \/ \E initOptions \in LifecycleContexts \cup {MissingFacetContext} :
          HInit(initOptions)
    \/ \E renderOptions \in LifecycleContexts \cup {MissingFacetContext} :
          HRender(renderOptions)
    \/ HToggleShowMore
    \/ \E renderOptions \in LifecycleContexts \cup {MissingFacetContext} :
          HCallGetWidgetRenderState(renderOptions)
    \/ \E renderOptions \in LifecycleContexts \cup {MissingFacetContext} :
          HGetRenderState(EmptyObject, renderOptions)

SpecMissingFacet == InitMissingFacet /\ [][NextMissingFacet]_vars

\* parameters before the widget's getWidgetSearchParameters: new ones, or
\* those another hierarchical widget left, with its facet, its refinement and
\* a bound above every limit of this widget
SharedParameters ==
    {NewHierParameters,
     [hierarchicalFacets |-> <<HierFacet("brand_lvl0", Separator)>>,
      hierarchicalFacetsRefinements |-> [brand_lvl0 |-> <<"Apple">>],
      maxValuesPerFacet |-> Num(MaxLimit + 2)]}

\* the parameters a hierarchical widget is disposed with: those its own
\* getWidgetSearchParameters produced, refined or not
HierDisposeStates(widgetParams) ==
    {HGetWidgetSearchParameters(searchParameters, uiState, widgetParams) :
        searchParameters \in SharedParameters,
        uiState \in {EmptyObject,
                     [hierarchicalMenu |-> [cat_lvl0 |-> <<"Shoes", "Sneakers">>]]}}

\* parameters that hold no bound on the values per facet, a bound below every
\* limit, or one above every limit
BoundParameters ==
    {[NewHierParameters EXCEPT !.maxValuesPerFacet = bound] :
        bound \in {Undefined, Num(1), Num(MaxLimit + 2)}}

\* one widget of either kind, created with or without an unmount hook, taken
\* through init, render, render-state and dispose calls in any order; the
\* hierarchical init and render are also called on results without the facet
\* entry, on the runs in which the host calls no other method of the widget
InitWidgets ==
    /\ \/ /\ \E maxParam \in MaxParams, unmountFn \in UnmountFns :
                 \E uiState \in StartUiStates(MaxOf(maxParam)) :
                     RCreated(maxParam,
                              getWidgetSearchParameters(NewSearchParameters, uiState,
                                                        MaxOf(maxParam)),
                              unmountFn, "constructed")
          /\ HAbsent
       \/ /\ RAbsent
          /\ \E widgetParams \in HierParams, unmountFn \in UnmountFns :
                 /\ ~ConstructionThrows(widgetParams)
                 /\ HCreated(widgetParams, unmountFn, "constructed")
    /\ cCall = NoCall
    /\ MAbsent

NextWidgets ==
    \/ \E results \in LifecycleResults(rMax) : RInit(results)
    \/ \E results \in LifecycleResults(rMax) : RRender(results)
    \/ \E results \in LifecycleResults(rMax) : RGetWidgetRenderState(results)
    \/ \E results \in LifecycleResults(rMax) :
          \E renderState \in RenderStates("ratingMenu", Attribute) :
              RGetRenderState(renderState, results)
    \/ RDispose(rState)
    \/ \E value \in RefineValues(rMax) : RCreateURL(value)
    \/ \E initOptions \in LifecycleContexts : HInit(initOptions)
    \/ cCall = NoCall /\ HInit(MissingFacetContext)
    \/ \E renderOptions \in LifecycleContexts : HRender(renderOptions)
    \/ cCall = NoCall /\ HRender(MissingFacetContext)
    \/ HToggleShowMore
    \/ /\ hThrown = 0
       /\ \E renderOptions \in LifecycleContexts \cup {MissingFacetContext} :
              HCallGetWidgetRenderState(renderOptions)
    \/ /\ hThrown = 0
       /\ \E renderOptions \in LifecycleContexts :
              \E renderState \in RenderStates("hierarchicalMenu", HierarchicalFacetName) :
                  HGetRenderState(renderState, renderOptions)
    \/ hThrown = 0 /\ \E state \in HierDisposeStates(hParams) : HDispose(state)
    \/ /\ hThrown = 0
       /\ \E searchParameters \in BoundParameters :
              HCallGetWidgetSearchParameters(searchParameters, EmptyObject)

SpecWidgets == InitWidgets /\ [][NextWidgets]_vars

\* the hierarchical widget on a helper started unrefined or from a
\* breadcrumb, through init, render, render-state and refine calls
InitHierRefine ==
    /\ RAbsent
    /\ \E widgetParams \in HierParams, uiState \in HierUiStates :
           /\ ~ConstructionThrows(widgetParams)
           /\ widgetParams.limit = 1 /\ widgetParams.showMoreLimit = MaxLimit
           /\ "query" \notin DOMAIN uiState
           /\ HCreatedOn(widgetParams, Undefined, "constructed",
                         HStartState(widgetParams, uiState))
    /\ cCall = NoCall
    /\ MAbsent

NextHierRefine ==
    \/ \E initOptions \in LifecycleContexts : HInit(initOptions)
    \/ \E renderOptions \in LifecycleContexts : HRender(renderOptions)
    \/ \E facetValue \in HierPaths : HRefine(facetValue)
    \/ \E facetValue \in HierPaths : HSendEvent(facetValue)

SpecHierRefine == InitHierRefine /\ [][NextHierRefine]_vars

\* the hierarchical widget through every operation the host or the user can
\* call on it, the pure methods on the helper's current parameters
ShowMoreContexts == {context \in LifecycleContexts : context.results.present}

InitShowMore ==
    /\ RAbsent
    /\ HCreated([limit |-> 1, showMoreLimit |-> MaxLimit, showMore |-> TRUE],
                Undefined, "constructed")
    /\ cCall = NoCall
    /\ MAbsent

NextShowMore ==
    \/ \E initOptions \in ShowMoreContexts : HInit(initOptions)
    \/ \E renderOptions \in ShowMoreContexts : HRender(renderOptions)
    \/ HToggleShowMore
    \/ \E facetValue \in Labels : HRefine(facetValue)
    \/ \E facetValue \in Labels : HSendEvent(facetValue)
    \/ \E renderOptions \in ShowMoreContexts :
          HCallGetWidgetRenderState(renderOptions)
    \/ \E renderOptions \in ShowMoreContexts :
          HGetRenderState(EmptyObject, renderOptions)
    \/ HCallGetWidgetUiState(EmptyObject, hState)
    \/ HCallGetWidgetSearchParameters(hState, EmptyObject)
    \/ HDispose(hState)

SpecShowMore == InitShowMore /\ [][NextShowMore]_vars

\* either widget through every operation, the pure methods and dispose on the
\* helper's current parameters
InitAllCalls ==
    /\ \/ /\ \E uiState \in StartUiStates(MaxMax) :
                 RCreated(Num(MaxMax),
                          getWidgetSearchParameters(NewSearchParameters, uiState,
                                                    MaxMax),
                          Undefined, "constructed")
          /\ HAbsent
       \/ InitShowMore
    /\ cCall = NoCall
    /\ MAbsent

NextAllCalls ==
    \/ NextShowMore
    \/ RInit(NoResults)
    \/ RRender(Results(TRUE, SampleFacets(rMax), 1))
    \/ \E facetValue \in ThresholdValues(rMax) : RRefine(facetValue)
    \/ rOp = "render" /\ RSendEvent(<<Str("conversion")>>)
    \/ RCreateURL(ValToString(rMax))
    \/ RGetWidgetRenderState(Results(TRUE, SampleFacets(rMax), 1))
    \/ RGetRenderState(EmptyObject, Results(TRUE, SampleFacets(rMax), 1))
    \/ RGetWidgetUiState(EmptyObject, rState)
    \/ RGetWidgetSearchParameters(rState, EmptyObject)
    \/ RDispose(rState)

SpecAllCalls == InitAllCalls /\ [][NextAllCalls]_vars

\* ------------------------------------------------------------ several helpers
\* largest number of helpers handed to the render calls of one widget
MaxHelpers == 2
Helpers == 1..MaxHelpers

\* getWidgetRenderState({ helper, ... }) through init or render: sendEvent is
\* created on the first call only, with the helper of that call; the rating
\* refine is bound to the helper of each call, the hierarchical this._refine
\* is created on the first call only
MRender(helper) ==
    /\ mKind # "none"
    /\ mLatest' = helper
    /\ mSendEventHelper' = IF mSendEventHelper = 0 THEN helper ELSE mSendEventHelper
    /\ mRefineHelper' = IF mKind = "ratingMenu" \/ mRefineHelper = 0
                        THEN helper ELSE mRefineHelper
    /\ mOp' = "render"
    /\ UNCHANGED <<mKind, mStates, mSearches, mClick>>
    /\ UNCHANGED <<rVars, hVars, cCall>>

\* helper.state after refine(facetValue) on a helper in `state`
MToggle(kind, state, facetValue) ==
    IF kind = "ratingMenu"
    THEN toggleRefinement(state, facetValue, MaxMax)
    ELSE toggleHierarchicalFacetRefinement(state, HierarchicalFacetName, facetValue)

\* sendEvent('click', facetValue) of the sender created with `helper`: the
\* rating sender reads getRefinedStar(helper.state) to decide
MSendClick(kind, helper, state, facetValue) ==
    IF kind = "ratingMenu"
    THEN [eventType |-> "click", facetValue |-> facetValue, helper |-> helper,
          emitted |-> SendEventEmits(state, "click", facetValue)]
    ELSE [eventType |-> "click", facetValue |-> facetValue, helper |-> helper]

\* the values refine is called with
MRefineValues(kind) ==
    IF kind = "ratingMenu" THEN ThresholdValues(MaxMax) ELSE Labels

\* refine(facetValue) of the latest render state
MRefine(facetValue) ==
    /\ mLatest # 0
    /\ mSearches[mRefineHelper] < MaxCalls
    /\ mClick' = MSendClick(mKind, mSendEventHelper, mStates[mSendEventHelper],
                            facetValue)
    /\ mStates' = [mStates EXCEPT
                      ![mRefineHelper] = MToggle(mKind, @, facetValue)]
    /\ mSearches' = [mSearches EXCEPT ![mRefineHelper] = @ + 1]
    /\ mOp' = "refine"
    /\ UNCHANGED <<mKind, mSendEventHelper, mRefineHelper, mLatest>>
    /\ UNCHANGED <<rVars, hVars, cCall>>

\* the parameters a helper starts with: those of getWidgetSearchParameters
MStartStates(kind) ==
    IF kind = "ratingMenu"
    THEN {getWidgetSearchParameters(NewSearchParameters, uiState, MaxMax) :
              uiState \in StartUiStates(MaxMax)}
    ELSE {HStartState([limit |-> 1, showMoreLimit |-> 2, showMore |-> FALSE],
                      uiState) :
              uiState \in {EmptyObject,
                           [hierarchicalMenu |->
                               WithKey(EmptyObject, HierarchicalFacetName,
                                       <<"Shoes">>)]}}

InitHelpers ==
    /\ RAbsent
    /\ HAbsent
    /\ cCall = NoCall
    /\ mKind \in {"ratingMenu", "hierarchicalMenu"}
    /\ mStates \in [Helpers -> MStartStates(mKind)]
    /\ mSearches = [helper \in Helpers |-> 0]
    /\ mSendEventHelper = 0
    /\ mRefineHelper = 0
    /\ mLatest = 0
    /\ mClick = NoClick
    /\ mOp = "none"

NextHelpers ==
    \/ \E helper \in Helpers : MRender(helper)
    \/ \E facetValue \in MRefineValues(mKind) : MRefine(facetValue)

\* one widget rendered with any of several helpers, and refined
SpecHelpers == InitHelpers /\ [][NextHelpers]_vars

\* ------------------------------------------------------------ rating: claims
\* the list <<"from", ..., "to">> of decimal notations
StringsFromTo(from, to) == [i \in 1..(to - from + 1) |-> ValToString(from + i - 1)]

\* the attribute's refinement list in helper.state
RefinementList == getDisjunctiveRefinements(rState, Attribute)

\* the step is a refine call
RefineStep == rSearches' = rSearches + 1

\* C1: refine(T) with T in 1..max, T not the active threshold (the minimum of
\* the current refinements): afterwards the attribute's refinements are
\* exactly T, T+1, ..., max, whatever was refined before.
C1_RefineInstallsRange ==
    [][(/\ RefineStep
        /\ Number(rArg') \in 1..rMax
        /\ getRefinedStar(rState) # Num(Number(rArg')))
       => (/\ RefinementList' = StringsFromTo(Number(rArg'), rMax)
           /\ RefinementSet(rState') = Number(rArg')..rMax)]_vars

\* a refine(2) made while 0 and 3 were refined has left exactly 2..max
C1_Witness ==
    /\ rOp = "refine" /\ rArg = "2" /\ rMax = 3
    /\ rBefore = <<"0", "3">>
    /\ RefinementList = <<"2", "3">>

\* C2: refine(T) with T the active threshold leaves the attribute's refinement
\* list present and empty; hence refine(T) twice in a row from an unrefined
\* state (renders in between or not) ends with the empty list.
C2_RefineActiveClears ==
    [][/\ (RefineStep /\ getRefinedStar(rState) = Num(Number(rArg')))
          => (/\ Attribute \in DOMAIN rState'.disjunctiveFacetsRefinements
              /\ rState'.disjunctiveFacetsRefinements[Attribute] = <<>>)
       /\ (RefineStep /\ rSearches > 0 /\ rBefore = <<>> /\ rArg' = rArg)
          => RefinementList' = <<>>]_vars

\* the second of two refine("2") calls, the first made unrefined, has emptied
\* the list
C2_Witness ==
    /\ rOp = "refine" /\ rArg = "2" /\ rSearches = 2 /\ rSinkCalls = 1
    /\ rBefore = <<"2", "3">>
    /\ Attribute \in DOMAIN rState.disjunctiveFacetsRefinements
    /\ rState.disjunctiveFacetsRefinements[Attribute] = <<>>

\* C3: the insights sink is called exactly once by each refine whose value is
\* not the active threshold when the call is made, and not at all by a refine
\* of the active threshold, nor by init or render; the only other calls of the
\* sink are those of a renderer that calls sendEvent itself.
C3_EventPerNewFilter ==
    [][/\ RefineStep =>
            rSinkCalls' = rSinkCalls +
                (IF getRefinedStar(rState) = Num(Number(rArg')) THEN 0 ELSE 1)
       /\ (~RefineStep /\ rOp' # "sendEvent") => rSinkCalls' = rSinkCalls]_vars

\* refine(A), refine(A), refine(B) from an unrefined start: two events, the
\* latest for B
C3_Witness ==
    /\ rOp = "refine" /\ rSearches = 3 /\ rSinkCalls = 2
    /\ rBefore = <<>> /\ rArg = "1"
    /\ rLastEvent = ClickEvent("1", DefaultEventName)
    /\ RefinementSet(rState) = 1..rMax

\* C4 (as claimed): a refine(v) call sends an event only if it adds a filter:
\* after a call that sent one the refinement set is non-empty and contains v,
\* and a call that leaves no refinement sends none.
C4_EventOnlyWhenFilterAdded ==
    [][RefineStep =>
          /\ (rSinkCalls' # rSinkCalls) =>
                 (/\ RefinementSet(rState') # {}
                  /\ Number(rArg') \in RefinementSet(rState'))
          /\ (RefinementSet(rState') = {}) => rSinkCalls' = rSinkCalls]_vars

\* getWidgetSearchParameters(params, {uiState: getWidgetUiState({}, params)})
RoundTrip(params, max) ==
    getWidgetSearchParameters(params, getWidgetUiState(EmptyObject, params), max)

\* C5 (as claimed): for every parameters object reached by refine calls, the
\* round trip through the UI state gives back the same refinement set.
C5_RoundTrip ==
    RefinementSet(RoundTrip(rState, rMax)) = RefinementSet(rState)

\* the facet values the latest render was computed from, and its items
RenderedFacets == FacetValuesOf(rRendered.results)
RenderedFromResults == rRendered.delivered /\ rRendered.results.present

\* C6 (as claimed): every listed item for threshold t has as count the sum of
\* the counts of all reported facet values v with v >= t (names are kept as
\* twice their value).
C6_LadderCountsAllAbove ==
    RenderedFromResults =>
        \A i \in 1..Len(rRendered.items) :
            LET t == Number(rRendered.items[i].value)
            IN  rRendered.items[i].count =
                    SumCounts(RenderedFacets,
                              {h \in DOMAIN RenderedFacets : h >= 2 * t})

\* C6 (amended): every listed item for threshold t has as count the sum of the
\* counts of the reported facet values v with t - 0.5 <= v < max + 0.5: those
\* that Math.round takes into t..max.
C6_LadderCounts ==
    RenderedFromResults =>
        \A i \in 1..Len(rRendered.items) :
            LET t == Number(rRendered.items[i].value)
            IN  rRendered.items[i].count =
                    SumCounts(RenderedFacets,
                              {h \in DOMAIN RenderedFacets :
                                  2 * t - 1 <= h /\ h < 2 * rMax + 1})

\* the counts {0:5,1:10,2:20,3:50,4:900,5:100} with max 5 are rendered as
\* 4 -> 1000, 3 -> 1050, 2 -> 1070, 1 -> 1080
C6_Witness ==
    /\ RenderedFromResults
    /\ rMax = 5
    /\ RenderedFacets = SampleFacets(DefaultMax)
    /\ [i \in 1..Len(rRendered.items) |->
           <<rRendered.items[i].value, rRendered.items[i].count>>]
       = << <<"4", 1000>>, <<"3", 1050>>, <<"2", 1070>>, <<"1", 1080>> >>

\* C7: the cumulative count of threshold t is at least that of t + 1, for
\* every t in 1..max-1, so the counts of the delivered items (descending
\* thresholds) never decrease along the list.
C7_LadderMonotonic ==
    RenderedFromResults =>
        /\ \A t \in 1..(rMax - 1) :
               AllValues(RenderedFacets, rMax)[t] >= AllValues(RenderedFacets, rMax)[t + 1]
        /\ \A i \in 1..(Len(rRendered.items) - 1) :
               /\ Number(rRendered.items[i].value) > Number(rRendered.items[i + 1].value)
               /\ rRendered.items[i].count <= rRendered.items[i + 1].count

\* a ladder whose counts grow strictly from threshold 2 to threshold 1
C7_Witness ==
    /\ RenderedFromResults
    /\ rMax = 3
    /\ Len(rRendered.items) = 2
    /\ rRendered.items[1].count = 2
    /\ rRendered.items[2].count = 3

\* ------------------------------------------------------------ hierarchical: claims
\* the step is a toggleShowMore() call
ToggleStep == hOp' = "toggleShowMore"

\* what every effective toggleShowMore() does
ToggleReRenders ==
    /\ hIsShowingMore' = ~hIsShowingMore
    /\ hRenderCalls' = hRenderCalls + 1
    /\ hRendered'.delivered /\ ~hRendered'.isFirstRender
    /\ hRendered'.isShowingMore = hIsShowingMore'
    /\ hRendered'.context = hRendered.context
    /\ hSearches' = hSearches

\* C8 (as claimed): in any state after init, with or without render calls
\* since, toggleShowMore() flips isShowingMore and calls the render callback
\* exactly once, not as first delivery, with the cached context, and never
\* searches.  It fails for a toggleShowMore() between init and the first
\* render, which does nothing, and for one after a render whose results hold
\* no entry for the facet, which flips the flag and throws before the
\* callback.
C8_ToggleAfterInit ==
    [][ToggleStep => ToggleReRenders]_vars

\* the display limit with the show-more flag off, and with it on
LimitOff == hParams.limit
LimitOn == hParams.showMoreLimit
\* the display limit the latest delivery was computed with
ActiveLimit == IF hRendered.isShowingMore THEN LimitOn ELSE LimitOff

\* C9 (as claimed): for every widget constructed successfully the limit with
\* the flag on is strictly greater than with the flag off; stated of the
\* widgets whose flag has been toggled on.
C9_ShowMoreLimitGreater ==
    (hPhase = "active" /\ hIsShowingMore) =>
        getLimit(TRUE, hParams) > getLimit(FALSE, hParams)

\* C9 (amended): for every widget constructed successfully with showMore
\* enabled the limit with the flag on is strictly greater than with the flag
\* off, so toggling on strictly increases the limit and toggling back
\* restores it.
C9_ShowMoreLimitGreaterWhenEnabled ==
    (hPhase # "failed" /\ hParams.showMore) =>
        /\ getLimit(TRUE, hParams) > getLimit(FALSE, hParams)
        /\ getLimit(hIsShowingMore, hParams) =
               (IF hIsShowingMore THEN LimitOn ELSE LimitOff)

\* a widget with showMore enabled, toggled on: more items are delivered than
\* `limit` allows
C9_Witness ==
    /\ hPhase = "active" /\ hParams.showMore
    /\ hOp = "toggleShowMore" /\ hIsShowingMore
    /\ hRendered.delivered
    /\ Len(hRendered.items) > hParams.limit

\* `out` holds at most `limit` entries, is a prefix of `input` in the same
\* order, and so is every nested list
RECURSIVE IsTruncatedPrefix(_, _, _)
IsTruncatedPrefix(out, input, limit) ==
    /\ Len(out) <= limit
    /\ Len(out) <= Len(input)
    /\ \A i \in 1..Len(out) :
           /\ out[i].label = input[i].name
           /\ out[i].value = input[i].path
           /\ out[i].count = input[i].count
           /\ out[i].isRefined = input[i].isRefined
           /\ out[i].data.isArray = input[i].data.isArray
           /\ out[i].data.isArray =>
                  IsTruncatedPrefix(out[i].data.items, input[i].data.items, limit)

\* C10: in every delivered render state the items list and every nested child
\* list has at most L entries, L being limit when isShowingMore is false and
\* showMoreLimit when it is true, and is the prefix of its input list.
C10_Truncation ==
    hRendered.delivered =>
        IsTruncatedPrefix(hRendered.items,
                          HierFacetValuesOf(hRendered.context.results),
                          ActiveLimit)

\* a delivery whose top-level list and whose nested list were both cut
C10_Witness ==
    /\ hRendered.delivered
    /\ LET input == HierFacetValuesOf(hRendered.context.results)
       IN  /\ Len(hRendered.items) = ActiveLimit
           /\ Len(input) > ActiveLimit
           /\ \E i \in 1..Len(hRendered.items) :
                  /\ hRendered.items[i].data.isArray
                  /\ Len(hRendered.items[i].data.items) = ActiveLimit
                  /\ Len(input[i].data.items) > ActiveLimit

\* ------------------------------------------------------------ method claims
\* hierarchicalFacetsRefinements[hierarchicalFacetName] of the parameters, []
\* when they hold no such key
HRefinementOf(parameters) ==
    IF HierarchicalFacetName \in DOMAIN parameters.hierarchicalFacetsRefinements
    THEN parameters.hierarchicalFacetsRefinements[HierarchicalFacetName]
    ELSE <<>>

\* `out` is `in` with out[namespace][attribute] = value and nothing else changed
SetsOnlyOwnEntry(in, out, namespace, attribute, value) ==
    LET siblings == IF namespace \in DOMAIN in THEN DOMAIN in[namespace] ELSE {}
    IN  /\ DOMAIN out = DOMAIN in \cup {namespace}
        /\ \A k \in DOMAIN in \ {namespace} : out[k] = in[k]
        /\ DOMAIN out[namespace] = siblings \cup {attribute}
        /\ \A k \in siblings \ {attribute} : out[namespace][k] = in[namespace][k]
        /\ out[namespace][attribute] = value

\* the positions at which `separator` starts in `string`
Occurrences(string, separator) ==
    {i \in 1..(Len(string) - Len(separator) + 1) :
        SubSeq(string, i, i + Len(separator) - 1) = separator}

\* `part` is `piece` without the white space at its two ends
IsTrimmed(part, piece) ==
    \E a \in 1..(Len(piece) + 1), b \in 0..Len(piece) :
        /\ a <= b + 1
        /\ part = SubSeq(piece, a, b)
        /\ \A i \in (1..(a - 1)) \cup ((b + 1)..Len(piece)) :
               SubSeq(piece, i, i) \in WhiteSpace
        /\ a <= b => /\ SubSeq(piece, a, a) \notin WhiteSpace
                     /\ SubSeq(piece, b, b) \notin WhiteSpace

\* `path` is the breadcrumb of `refinement`: one label for each stretch of
\* the refinement between two occurrences of the separator (which do not
\* overlap in the paths explored), each stretch without the white space at
\* its ends
IsBreadcrumb(path, refinement, separator) ==
    LET at     == Occurrences(refinement, separator)
        Nth(k) == CHOOSE i \in at : Cardinality({j \in at : j < i}) = k - 1
        pieces == Cardinality(at) + 1
        From(k) == IF k = 1 THEN 1 ELSE Nth(k - 1) + Len(separator)
        To(k)   == IF k = pieces THEN Len(refinement) ELSE Nth(k) - 1
    IN  /\ Len(path) = pieces
        /\ \A k \in 1..pieces :
               IsTrimmed(path[k], SubSeq(refinement, From(k), To(k)))

\* C11: getWidgetUiState of either widget returns the input uiState when the
\* parameters hold no active refinement of the widget; otherwise it keeps
\* every key of the input and every sibling entry under the connector's
\* namespace, and sets only the widget's own entry, to the active threshold
\* (rating) or to the breadcrumb (hierarchical): the labels of the refined
\* path between the separators the facet is declared with, without the
\* white space around them.
C11_UiStateFrame ==
    /\ cCall.method = "ratingMenu.getWidgetUiState" =>
           LET refined == RefinementSet(cCall.searchParameters)
           IN  IF refined = {} THEN cCall.result = cCall.uiState
               ELSE SetsOnlyOwnEntry(cCall.uiState, cCall.result, "ratingMenu",
                                     Attribute, Num(MathMin(refined)))
    /\ cCall.method = "hierarchicalMenu.getWidgetUiState" =>
           LET parameters == cCall.searchParameters
               declared == {i \in 1..Len(parameters.hierarchicalFacets) :
                               parameters.hierarchicalFacets[i].name
                                   = HierarchicalFacetName}
               refined  == HRefinementOf(parameters)
           IN  IF declared = {} \/ refined = <<>> \/ refined = <<"">>
               THEN cCall.result = cCall.uiState
               ELSE /\ SetsOnlyOwnEntry(cCall.uiState, cCall.result,
                                        "hierarchicalMenu", HierarchicalFacetName,
                                        cCall.result.hierarchicalMenu[HierarchicalFacetName])
                    /\ IsBreadcrumb(
                           cCall.result.hierarchicalMenu[HierarchicalFacetName],
                           refined[1],
                           parameters.hierarchicalFacets[MathMin(declared)].separator)

\* a breadcrumb written beside another widget's entry and beside the query,
\* from a path with a vertical tab, blanks, a no-break space, a tab and a
\* line feed around its labels, on a facet declared with the separator ">"
C11_Witness ==
    /\ cCall.method = "hierarchicalMenu.getWidgetUiState"
    /\ cCall.uiState = [query |-> "phone", hierarchicalMenu |-> [other |-> <<"Bags">>]]
    /\ HRefinementOf(cCall.searchParameters) = <<" Shoes >\tSneakers\n">>
    /\ cCall.searchParameters.hierarchicalFacets[1].name = HierarchicalFacetName
    /\ cCall.searchParameters.hierarchicalFacets[1].separator = ">"
    /\ cCall.result = [query |-> "phone",
                       hierarchicalMenu |-> [other |-> <<"Bags">>,
                                             cat_lvl0 |-> <<"Shoes", "Sneakers">>]]

\* C12: getWidgetSearchParameters of the rating widget, given a uiState with
\* no entry for the attribute, returns parameters that declare the attribute
\* as a disjunctive facet and hold the empty refinement list for it, whatever
\* the input parameters held.
C12_AbsentUiStateClears ==
    (/\ cCall.method = "ratingMenu.getWidgetSearchParameters"
     /\ UiValue(cCall.uiState) = Undefined)
    => /\ isDisjunctiveFacet(cCall.result, Attribute)
       /\ Attribute \in DOMAIN cCall.result.disjunctiveFacetsRefinements
       /\ cCall.result.disjunctiveFacetsRefinements[Attribute] = <<>>

\* parameters refined on 2 and 3 without the attribute declared, and a
\* uiState holding only another widget's entry
C12_Witness ==
    /\ cCall.method = "ratingMenu.getWidgetSearchParameters"
    /\ cCall.uiState = [query |-> "phone", ratingMenu |-> [other |-> Num(1)]]
    /\ ~isDisjunctiveFacet(cCall.searchParameters, Attribute)
    /\ Attribute \in DOMAIN cCall.searchParameters.disjunctiveFacetsRefinements
    /\ cCall.searchParameters.disjunctiveFacetsRefinements[Attribute] = <<"2", "3">>
    /\ cCall.result.disjunctiveFacets = {Attribute}
    /\ cCall.result.disjunctiveFacetsRefinements[Attribute] = <<>>

\* C13: getWidgetSearchParameters of the rating widget, given a uiState whose
\* threshold is T in 1..max (held as a number or as its decimal string),
\* returns parameters whose refinements on the attribute are exactly
\* T, ..., max: the refinements of the input parameters are discarded, not
\* merged.
C13_UiStateThresholdInstalls ==
    (/\ cCall.method = "ratingMenu.getWidgetSearchParameters"
     /\ UiValue(cCall.uiState).type \in {"number", "string"}
     /\ ToNumber(UiValue(cCall.uiState)) \in 1..rMax)
    => LET T == ToNumber(UiValue(cCall.uiState))
       IN  /\ RefinementSet(cCall.result) = T..rMax
           /\ cCall.result.disjunctiveFacetsRefinements[Attribute]
                  = StringsFromTo(T, rMax)

\* threshold "2" of max 3 given with parameters refined on 0 and 1
C13_Witness ==
    /\ cCall.method = "ratingMenu.getWidgetSearchParameters"
    /\ rMax = 3
    /\ UiValue(cCall.uiState) = Str("2")
    /\ RefinementSet(cCall.searchParameters) = {0, 1}
    /\ cCall.result.disjunctiveFacetsRefinements[Attribute] = <<"2", "3">>

\* C14: getWidgetSearchParameters of the hierarchical widget, given a uiState
\* with a breadcrumb for the facet, returns parameters that hold exactly one
\* refinement on the facet, the labels joined by the separator, in place of
\* whatever the input held; given a uiState with no breadcrumb, the facet's
\* refinement list is empty.
C14_BreadcrumbInstallsPath ==
    cCall.method = "hierarchicalMenu.getWidgetSearchParameters" =>
        /\ ~IsError(cCall.result)
        /\ isHierarchicalFacet(cCall.result, HierarchicalFacetName)
        /\ LET values == HUiValue(cCall.uiState)
               list   == getHierarchicalRefinement(cCall.result, HierarchicalFacetName)
           IN  IF values = Undefined THEN list = <<>>
               ELSE /\ Len(list) = 1
                    /\ list[1] = Join(values.items, Separator)
                    /\ Len(values.items) = 2 =>
                           list[1] = values.items[1] \o " > " \o values.items[2]

\* ["Shoes", "Sneakers"] given with parameters refined on "Sneakers/Shoes"
C14_Witness ==
    /\ cCall.method = "hierarchicalMenu.getWidgetSearchParameters"
    /\ HUiValue(cCall.uiState) # Undefined
    /\ HUiValue(cCall.uiState).items = <<"Shoes", "Sneakers">>
    /\ getHierarchicalRefinement(cCall.searchParameters, HierarchicalFacetName)
           = <<"Sneakers/Shoes">>
    /\ getHierarchicalRefinement(cCall.result, HierarchicalFacetName)
           = <<"Shoes > Sneakers">>

\* ------------------------------------------------------------ lifecycle claims
\* the step is a call of the named operation on the rating / hierarchical widget
RStep(op) == rOp' = op /\ rVars' # rVars
HStep(op) == hOp' = op /\ hVars' # hVars

\* C15 (as claimed): every init call calls the render callback exactly
\* once, as first delivery, and every render call calls it exactly once, not
\* as first delivery, for both widgets; an init without results delivers no
\* items.  It fails for a hierarchical init or render on results that hold no
\* entry for the facet: getWidgetRenderState throws before the callback.
C15_LifecycleDelivery ==
    [][/\ RStep("init") =>
              /\ rRenderCalls' = rRenderCalls + 1
              /\ rRendered'.delivered /\ rRendered'.isFirstRender
              /\ ~rRendered'.results.present => rRendered'.items = <<>>
       /\ RStep("render") =>
              /\ rRenderCalls' = rRenderCalls + 1
              /\ rRendered'.delivered /\ ~rRendered'.isFirstRender
       /\ HStep("init") =>
              /\ hRenderCalls' = hRenderCalls + 1
              /\ hRendered'.delivered /\ hRendered'.isFirstRender
              /\ ~hRendered'.context.results.present => hRendered'.items = <<>>
       /\ HStep("render") =>
              /\ hRenderCalls' = hRenderCalls + 1
              /\ hRendered'.delivered /\ ~hRendered'.isFirstRender]_vars

\* C16: dispose of either widget calls the unmount function exactly once for
\* the instance, and returns without error when the connector was created
\* without an unmount hook; before dispose the function is never called.
C16_UnmountOnce ==
    /\ rPhase = "disposed" =>
           /\ rUnmountCalls = 1
           /\ cCall.method = "ratingMenu.dispose" /\ ~IsError(cCall.result)
    /\ rPhase # "disposed" => rUnmountCalls = 0
    /\ hPhase = "disposed" =>
           /\ hUnmountCalls = 1
           /\ cCall.method = "hierarchicalMenu.dispose" /\ ~IsError(cCall.result)
    /\ hPhase # "disposed" => hUnmountCalls = 0

\* a hierarchical widget created without a hook, disposed after init and render
C16_Witness ==
    /\ hPhase = "disposed" /\ hOp = "dispose"
    /\ hUnmountFn = Undefined
    /\ hRenderCalls >= 2
    /\ hUnmountCalls = 1
    /\ ~IsError(cCall.result)

\* C17: dispose of the rating widget returns parameters in which the
\* attribute is not a declared disjunctive facet and has no refinements (its
\* key is gone whenever the input declared the facet), and in which every
\* other declared facet and every other refinement list is as in the input;
\* the helper's own parameters are left as they were.
C17_DisposeReleasesAttribute ==
    [][RStep("dispose") =>
          LET in  == cCall'.state
              out == cCall'.result
          IN  /\ ~IsError(out)
              /\ ~isDisjunctiveFacet(out, Attribute)
              /\ getDisjunctiveRefinements(out, Attribute) = <<>>
              /\ isDisjunctiveFacet(in, Attribute) =>
                     Attribute \notin DOMAIN out.disjunctiveFacetsRefinements
              /\ out.disjunctiveFacets = in.disjunctiveFacets \ {Attribute}
              /\ \A k \in DOMAIN in.disjunctiveFacetsRefinements \ {Attribute} :
                     /\ k \in DOMAIN out.disjunctiveFacetsRefinements
                     /\ out.disjunctiveFacetsRefinements[k]
                            = in.disjunctiveFacetsRefinements[k]
              /\ DOMAIN out.disjunctiveFacetsRefinements
                     \subseteq DOMAIN in.disjunctiveFacetsRefinements
              /\ rState' = rState]_vars

\* parameters refined on the attribute and on another facet: only the other
\* facet is left
C17_Witness ==
    /\ rPhase = "disposed"
    /\ cCall.method = "ratingMenu.dispose"
    /\ cCall.state = [disjunctiveFacets |-> {"brand", Attribute},
                      disjunctiveFacetsRefinements |->
                          [brand |-> <<"Apple">>, grade |-> <<"2", "3">>]]
    /\ cCall.result = [disjunctiveFacets |-> {"brand"},
                       disjunctiveFacetsRefinements |-> [brand |-> <<"Apple">>]]

\* C18: getRenderState of either widget returns the input render state with
\* the widget's own render state stored under its namespace and attribute,
\* every other namespace and every other entry of that namespace unchanged.
C18_RenderStateFrame ==
    /\ cCall.method = "ratingMenu.getRenderState" =>
           /\ SetsOnlyOwnEntry(cCall.renderState, cCall.result, "ratingMenu",
                               Attribute, cCall.own)
           /\ cCall.own.sendEvent = rSendEventsMade
           /\ cCall.own.items = RatingItems(cCall.own.results, rState, rMax)
    /\ cCall.method = "hierarchicalMenu.getRenderState" =>
           /\ SetsOnlyOwnEntry(cCall.renderState, cCall.result, "hierarchicalMenu",
                               HierarchicalFacetName, cCall.own)
           /\ cCall.own.sendEvent = hSendEventsMade

\* the rating render state, with items, written beside another widget's entry
\* of the same namespace and beside another namespace
C18_Witness ==
    /\ cCall.method = "ratingMenu.getRenderState"
    /\ cCall.renderState = [query |-> "phone",
                            ratingMenu |-> [other |-> [items |-> <<>>]]]
    /\ DOMAIN cCall.result = {"query", "ratingMenu"}
    /\ DOMAIN cCall.result.ratingMenu = {"other", Attribute}
    /\ cCall.result.ratingMenu.other = [items |-> <<>>]
    /\ Len(cCall.result.ratingMenu.grade.items) > 0

\* the event sender carried by the render state the latest call returned
ReturnedSendEvent ==
    IF cCall.method \in {"ratingMenu.getRenderState", "hierarchicalMenu.getRenderState"}
    THEN cCall.own.sendEvent
    ELSE cCall.result.sendEvent

\* C19: one widget instance makes one event sender: every render state it
\* delivers through init or render, or returns from getRenderState or
\* getWidgetRenderState, carries the sender made for the first of them.
C19_StableSendEvent ==
    /\ rSendEventsMade <= 1 /\ hSendEventsMade <= 1
    /\ rRendered.delivered => rRendered.sendEvent = 1
    /\ hRendered.delivered => hRendered.sendEvent = 1
    /\ cCall.method \in {"ratingMenu.getRenderState", "ratingMenu.getWidgetRenderState",
                         "hierarchicalMenu.getRenderState",
                         "hierarchicalMenu.getWidgetRenderState"}
           => (IsError(cCall.result) \/ ReturnedSendEvent = 1)

\* a hierarchical widget after init, render and toggleShowMore, then asked
\* for its render state: the delivered and the returned state carry sender 1
C19_Witness ==
    /\ hRenderCalls = 3 /\ hIsShowingMore
    /\ hOp = "getRenderState"
    /\ cCall.method = "hierarchicalMenu.getRenderState"
    /\ cCall.own.sendEvent = 1
    /\ hRendered.sendEvent = 1
    /\ hSendEventsMade = 1

\* ------------------------------------------------------------ construction claims
\* C20: creating a connector and a widget fails with an error exactly when the
\* renderer is not a function, or the rating attribute is missing, or the
\* hierarchical attributes are missing, not an array or empty, or showMore is
\* on with showMoreLimit <= limit; it then produces no widget and calls
\* neither the render callback nor the unmount function.  Every other
\* configuration produces a widget, also without calling them.
C20_ConstructionErrors ==
    /\ cCall.method = "connectRatingMenu" =>
           LET wp == cCall.widgetParams
               bad == \/ cCall.renderFn.type # "function"
                      \/ wp = Undefined
                      \/ wp.attribute \in {Undefined, Str("")}
           IN  /\ IsError(cCall.result) <=> bad
               /\ bad => rPhase = "failed"
               /\ ~bad => rPhase = "constructed" /\ cCall.result = Widget(RatingType)
               /\ rRenderCalls = 0 /\ rUnmountCalls = 0 /\ ~rRendered.delivered
    /\ cCall.method = "connectHierarchicalMenu" =>
           LET wp == cCall.widgetParams
               bad == \/ cCall.renderFn.type # "function"
                      \/ wp.attributes = Undefined
                      \/ wp.attributes.type # "array"
                      \/ wp.attributes = Arr(<<>>)
                      \/ wp.showMore /\ wp.showMoreLimit <= wp.limit
           IN  /\ IsError(cCall.result) <=> bad
               /\ bad => hPhase = "failed"
               /\ ~bad => hPhase = "constructed"
               /\ hRenderCalls = 0 /\ hUnmountCalls = 0 /\ ~hRendered.delivered

\* a hierarchical widget asked for with a function renderer, an unmount hook
\* and an empty attributes array: an error, no widget, no call
C20_Witness ==
    /\ cCall.method = "connectHierarchicalMenu"
    /\ cCall.renderFn = Function("render")
    /\ cCall.widgetParams.attributes = Arr(<<>>)
    /\ ~cCall.widgetParams.showMore
    /\ IsError(cCall.result)
    /\ hPhase = "failed" /\ hRenderCalls = 0 /\ hUnmountCalls = 0

\* ------------------------------------------------------------ rating: item claims
\* the thresholds of the items of the latest delivery, in list order
RenderedThresholds ==
    [i \in 1..Len(rRendered.items) |-> Number(rRendered.items[i].value)]
\* the refinements the latest delivery was computed with
RenderedRefinements == RefinementSet(rRendered.state)
\* the cumulative count of threshold t in the latest delivery: the counts of
\* the reported values that round into t..max
CumulativeCount(t) ==
    SumCounts(RenderedFacets,
              {h \in DOMAIN RenderedFacets : 2 * t - 1 <= h /\ h < 2 * rMax + 1})

\* C21 (as claimed): in a render state computed from results the thresholds
\* are strictly descending within max-1..1, and a threshold t of that range
\* is listed if and only if no refinement is active, or t is the active
\* threshold, or the cumulative count of t is not zero; with no active
\* refinement exactly max-1 items are listed.
C21_ItemListing ==
    RenderedFromResults =>
        LET listed == SeqRange(RenderedThresholds)
            active == RenderedRefinements # {}
        IN  /\ \A i \in 1..(Len(RenderedThresholds) - 1) :
                   RenderedThresholds[i] > RenderedThresholds[i + 1]
            /\ listed \subseteq 1..(rMax - 1)
            /\ \A t \in 1..(rMax - 1) :
                   t \in listed <=>
                       \/ ~active
                       \/ t = MathMin(RenderedRefinements)
                       \/ CumulativeCount(t) # 0
            /\ ~active => Len(rRendered.items) = rMax - 1

\* the positions of the refined items of the latest delivery
RefinedItems == {i \in 1..Len(rRendered.items) : rRendered.items[i].isRefined}
\* a refinement is active on the attribute in the parameters of that delivery
RefinementActive == Len(getDisjunctiveRefinements(rRendered.state, Attribute)) > 0

\* C22 (as claimed): in every render state computed from results at most one
\* item is refined, exactly one listed item is refined whenever the
\* attribute's refinement list is not empty, and no item is refined only when
\* no refinement is active.
C22_OneRefinedItem ==
    RenderedFromResults =>
        /\ Cardinality(RefinedItems) <= 1
        /\ RefinementActive => Cardinality(RefinedItems) = 1
        /\ RefinedItems = {} => ~RefinementActive

\* C22 (amended): in every render state computed from results at most one
\* item is refined; when the active threshold (the least refined value) lies
\* in 1..max-1 exactly one listed item is refined, the one of that threshold;
\* when no refinement is active, or the active threshold is 0 or max, whose
\* items are never listed, no item is refined.
C22_OneRefinedItemWhenListable ==
    RenderedFromResults =>
        /\ Cardinality(RefinedItems) <= 1
        /\ IF RefinementActive /\ MathMin(RenderedRefinements) \in 1..(rMax - 1)
           THEN \E i \in 1..Len(rRendered.items) :
                    /\ RefinedItems = {i}
                    /\ RenderedThresholds[i] = MathMin(RenderedRefinements)
           ELSE RefinedItems = {}

\* threshold 2 of max 3 refined and no value reported: the item of 2 is the
\* only one listed, with count 0, and it is refined
C22_Witness ==
    /\ RenderedFromResults
    /\ rMax = 3
    /\ RenderedRefinements = {2, 3}
    /\ Len(rRendered.items) = 1
    /\ rRendered.items[1].value = "2"
    /\ rRendered.items[1].count = 0
    /\ rRendered.items[1].isRefined

\* C23: every listed rating item of threshold t carries a sequence of exactly
\* max booleans, of which the first t are true and the other max - t false.
C23_StarPattern ==
    RenderedFromResults =>
        \A i \in 1..Len(rRendered.items) :
            LET t     == RenderedThresholds[i]
                stars == rRendered.items[i].stars
            IN  /\ DOMAIN stars = 1..rMax
                /\ Len(stars) = rMax
                /\ \A k \in 1..t : stars[k]
                /\ \A k \in (t + 1)..rMax : ~stars[k]
                /\ Cardinality({k \in 1..rMax : stars[k]}) = t

\* with the default max the item of threshold 4 shows four stars of five
C23_Witness ==
    /\ RenderedFromResults
    /\ rMax = 5
    /\ Len(rRendered.items) = 4
    /\ rRendered.items[1].value = "4"
    /\ rRendered.items[1].stars = <<TRUE, TRUE, TRUE, TRUE, FALSE>>
    /\ rRendered.items[4].stars = <<TRUE, FALSE, FALSE, FALSE, FALSE>>

\* ------------------------------------------------------------ missing facet data
\* the results hold no facet data for the rating attribute
RatingFacetMissing(results) == results.present /\ ~results.hasFacet
\* the results hold no facet data for the hierarchical facet: no entry at
\* all, or an entry without a data array
HierFacetMissing(results) ==
    results.present /\ (~results.hasFacet \/ ~results.data.isArray)

\* C24 (as claimed): a render state computed from results that hold no facet
\* data for the widget's attribute has an empty items list, and computing it
\* raises no error, for both widgets: getWidgetRenderState returns it, and
\* every init and render call hands it to the render callback.
C24_MissingFacetData ==
    /\ [](/\ (rRendered.delivered /\ RatingFacetMissing(rRendered.results))
                 => rRendered.items = <<>>
          /\ (/\ cCall.method = "ratingMenu.getWidgetRenderState"
              /\ RatingFacetMissing(cCall.result.results))
                 => cCall.result.items = <<>>
          /\ (hRendered.delivered /\ HierFacetMissing(hRendered.context.results))
                 => hRendered.items = <<>>
          /\ (/\ cCall.method = "hierarchicalMenu.getWidgetRenderState"
              /\ HierFacetMissing(cCall.renderOptions.results))
                 => (~IsError(cCall.result) /\ cCall.result.items = <<>>))
    /\ [][(hOp' \in {"init", "render"} /\ hVars' # hVars)
              => (/\ hRenderCalls' = hRenderCalls + 1
                  /\ hRendered'.delivered)]_vars

\* ------------------------------------------------------------ hierarchical: show more claims
\* the number of top-level facet values the latest delivery was computed from
RenderedValueCount == Len(HierFacetValuesOf(hRendered.context.results))

\* the items of the latest delivery are exhaustive: results are present and
\* the count is within the active limit, strictly so unless the parameters'
\* maxValuesPerFacet exceeds that limit
RenderedExhaustive ==
    LET bound == hRendered.context.maxValuesPerFacet
    IN  /\ hRendered.context.results.present
        /\ IF bound # Undefined /\ bound.value > ActiveLimit
           THEN RenderedValueCount <= ActiveLimit
           ELSE RenderedValueCount < ActiveLimit

\* C25: canToggleShowMore of a render state is true exactly when showMore is
\* enabled and either isShowingMore is on or the items are not exhaustive;
\* with showMore disabled it is false in every state.
C25_CanToggleShowMore ==
    hRendered.delivered =>
        /\ hRendered.canToggleShowMore =
               (hParams.showMore /\ (hRendered.isShowingMore \/ ~RenderedExhaustive))
        /\ ~hParams.showMore => ~hRendered.canToggleShowMore

\* showMore enabled, flag off, limit 1, one facet value and a larger
\* maxValuesPerFacet: the items are exhaustive and there is nothing to toggle
C25_Witness ==
    /\ hRendered.delivered
    /\ hParams = [limit |-> 1, showMoreLimit |-> 2, showMore |-> TRUE]
    /\ ~hRendered.isShowingMore
    /\ hRendered.context.maxValuesPerFacet = Num(2)
    /\ RenderedValueCount = 1
    /\ ~hRendered.canToggleShowMore

\* the bound on the values per facet in the parameters handed to the latest
\* call (0 when unset), and in the parameters it returned
InputBound ==
    IF cCall.searchParameters.maxValuesPerFacet = Undefined THEN 0
    ELSE cCall.searchParameters.maxValuesPerFacet.value
ResultBound == cCall.result.maxValuesPerFacet.value
\* showMore ? showMoreLimit : limit
RequestedLimit == IF hParams.showMore THEN hParams.showMoreLimit ELSE hParams.limit
GreaterOf(a, b) == IF a < b THEN b ELSE a

\* C26 (as claimed): getWidgetSearchParameters of the hierarchical widget sets
\* maxValuesPerFacet to the greater of the input bound (0 if unset) and
\* showMoreLimit (showMore enabled) or limit (disabled); the result is never
\* lower than the input bound nor, whatever the show-more flag of the widget,
\* lower than the active display limit.
C26_BoundCoversActiveLimit ==
    cCall.method = "hierarchicalMenu.getWidgetSearchParameters" =>
        /\ cCall.result.maxValuesPerFacet = Num(GreaterOf(InputBound, RequestedLimit))
        /\ ResultBound >= InputBound
        /\ ResultBound >= getLimit(hIsShowingMore, hParams)

\* C26 (amended): the bound is set as claimed and is never lower than the
\* input bound nor lower than limit; it is never lower than the active display
\* limit, flag on or off, when showMore is enabled.  With showMore disabled
\* the flag can still be toggled on, and the active limit showMoreLimit may
\* then exceed the bound.
C26_BoundCoversRequestedLimit ==
    cCall.method = "hierarchicalMenu.getWidgetSearchParameters" =>
        /\ cCall.result.maxValuesPerFacet = Num(GreaterOf(InputBound, RequestedLimit))
        /\ ResultBound >= InputBound
        /\ ResultBound >= hParams.limit
        /\ hParams.showMore => ResultBound >= getLimit(hIsShowingMore, hParams)

\* showMore enabled and the flag toggled on: the bound 1 of the input is
\* raised to showMoreLimit, the active display limit
C26_Witness ==
    /\ cCall.method = "hierarchicalMenu.getWidgetSearchParameters"
    /\ hParams.showMore /\ hIsShowingMore
    /\ InputBound = 1
    /\ ResultBound = hParams.showMoreLimit
    /\ ResultBound > hParams.limit

\* ------------------------------------------------------------ hierarchical: refine claims
\* the facet's refinement list in helper.state
HRefinementList(state) == getHierarchicalRefinement(state, HierarchicalFacetName)

\* every refine call passes its click to the event sender while the helper
\* still holds the parameters of before the call, and searches once, with
\* the parameters the call leaves
ClickThenSearch ==
    /\ hClicks' = hClicks + 1
    /\ hLastClick' = [eventType |-> "click", facetValue |-> hArg', state |-> hState]
    /\ hSearches' = hSearches + 1
    /\ hSearchedWith' = [searched |-> TRUE, state |-> hState']

\* every delivered render state carries the refine function made first
SameRefine == hRendered'.delivered => hRendered'.refine = 1

\* C27 (as claimed): refine(path) first passes a click for path to the event
\* sender, then toggles the facet's refinement to path (the refinement is
\* cleared when path is the active path, set to path otherwise) and searches
\* exactly once; every render state carries the same refine function.
C27_RefineTogglesPath ==
    [][/\ HStep("refine") =>
              /\ ClickThenSearch
              /\ HRefinementList(hState') =
                     (IF HRefinementList(hState) = <<hArg'>> THEN <<>> ELSE <<hArg'>>)
       /\ SameRefine]_vars

\* path is the refined path `active` or a level above it
AtOrAbove(path, active) ==
    LET whole == Split(active, Separator)
        head  == Split(path, Separator)
    IN  Len(head) <= Len(whole) /\ \A i \in 1..Len(head) : head[i] = whole[i]

\* C27 (amended): refine(path) first passes a click for path to the event
\* sender, then toggles the facet's refinement on the helper and searches
\* exactly once: when path is the active path or a level above it, the
\* refinement becomes the parent of path, and is cleared when path is a
\* root-level value; otherwise the refinement becomes path.  Every render
\* state carries the same refine function.
C27_RefineTogglesLevel ==
    [][/\ HStep("refine") =>
              /\ ClickThenSearch
              /\ LET before == HRefinementList(hState)
                     labels == Split(hArg', Separator)
                 IN  HRefinementList(hState') =
                         (IF Len(before) > 0 /\ AtOrAbove(hArg', before[1])
                          THEN IF Len(labels) = 1 THEN <<>>
                               ELSE <<Join(SubSeq(labels, 1, Len(labels) - 1), Separator)>>
                          ELSE <<hArg'>>)
       /\ SameRefine]_vars

\* refine of the active second-level path, after init and a render: the
\* click saw the path refined, the refinement is now its parent, and the
\* search was made with it
C27_Witness ==
    /\ hOp = "refine" /\ hArg = "Shoes > Sneakers"
    /\ hRenderCalls >= 2 /\ hRendered.refine = 1
    /\ hLastClick.eventType = "click"
    /\ HRefinementList(hLastClick.state) = <<"Shoes > Sneakers">>
    /\ HRefinementList(hState) = <<"Shoes">>
    /\ hSearchedWith.searched /\ hSearchedWith.state = hState

\* ------------------------------------------------------------ rating: search claims
\* C28: every refine call of the rating widget, whether it installs
\* refinements or clears them, calls helper.search exactly once, when the
\* helper already holds the refinements the call ends with; init and render
\* never search.
C28_OneSearchPerRefine ==
    [][/\ RStep("refine") =>
              /\ rSearches' = rSearches + 1
              /\ rSearchedWith'.searched
              /\ rSearchedWith'.state = rState'
              /\ getDisjunctiveRefinements(rSearchedWith'.state, Attribute)
                     = getDisjunctiveRefinements(
                           toggleRefinement(rState, rArg', rMax), Attribute)
       /\ (RStep("init") \/ RStep("render")) =>
              /\ rSearches' = rSearches
              /\ rSearchedWith' = rSearchedWith]_vars

\* a refine that installed 2..max followed by a refine of 2 that cleared
\* them: two searches, the second with the emptied list
C28_Witness ==
    /\ rOp = "refine" /\ rArg = "2" /\ rMax = 3
    /\ rBefore = <<"2", "3">>
    /\ rSearches = 2
    /\ rSearchedWith.searched
    /\ getDisjunctiveRefinements(rSearchedWith.state, Attribute) = <<>>
    /\ rSearchedWith.state = rState

\* ------------------------------------------------------------ rating: URL claims
\* C29 (as claimed): the parameters createURL(v) hands to the host's URL
\* builder hold, on the attribute, the refinements that refine(v) installs
\* when called with the helper in the state of that render.
C29_CreateURLMatchesRefine ==
    cCall.method = "ratingMenu.createURL" =>
        RefinementSet(cCall.result)
            = RefinementSet(toggleRefinement(cCall.state, cCall.value, rMax))

\* C30: from the parameters of getWidgetSearchParameters with an empty uiState,
\* whatever refine calls with values in 1..max and render calls follow, the
\* refinements of the attribute are none or exactly T, T+1, ..., max for one
\* T in 1..max, each value once.
Contiguous(T, max) == [i \in 1..(max - T + 1) |-> ValToString(T + i - 1)]

C30_CanonicalRefinements ==
    LET refinements == getDisjunctiveRefinements(rState, Attribute)
    IN  \/ refinements = <<>>
        \/ \E T \in 1..rMax :
               /\ RefinementSet(rState) = T..rMax
               /\ refinements = Contiguous(T, rMax)

\* a render happened, and a refine call on an already refined attribute with
\* another threshold left more than one value refined
C30_Witness ==
    /\ rOp = "refine"
    /\ rRenderCalls > 0
    /\ rSearches >= 2
    /\ rBefore # <<>>
    /\ Cardinality(RefinementSet(rState)) >= 2
    /\ Number(rArg) < rMax

\* ------------------------------------------------------------ rating: the three representations
\* the threshold each representation of the latest delivery's parameters
\* denotes, as a set: empty for 'no refinement'
UiThreshold ==
    LET uiState == getWidgetUiState(EmptyObject, rRendered.state)
    IN  IF "ratingMenu" \in DOMAIN uiState
        THEN {uiState.ratingMenu[Attribute].value}
        ELSE {}
ItemThreshold == {RenderedThresholds[i] : i \in RefinedItems}
LeastRefinement ==
    IF RenderedRefinements = {} THEN {} ELSE {MathMin(RenderedRefinements)}

\* C31 (as claimed): for the parameters of every render computed from results,
\* the threshold getWidgetUiState projects, the threshold of the item marked
\* isRefined and the least refined value of the attribute are the same
\* threshold, or all three are absent.
C31_ThreeRepresentations ==
    RenderedFromResults =>
        /\ UiThreshold = LeastRefinement
        /\ ItemThreshold = LeastRefinement

\* C31 (amended): the projected UI threshold always is the least refined
\* value (absent when nothing is refined); the item marked isRefined is the
\* one of that threshold when it lies in 1..max-1, and no item is marked when
\* the threshold is 0 or max, whose items are never listed.
C31_RepresentationsOfListedThresholds ==
    RenderedFromResults =>
        /\ UiThreshold = LeastRefinement
        /\ ItemThreshold = LeastRefinement \cap 1..(rMax - 1)

\* after refine('2') with max 3, a render from results: UI state, refined
\* item and least refinement all say 2
C31_Witness ==
    /\ RenderedFromResults
    /\ rOp = "render"
    /\ rSearches > 0
    /\ rMax = 3
    /\ RenderedRefinements = {2, 3}
    /\ UiThreshold = {2}
    /\ ItemThreshold = {2}

\* ------------------------------------------------------------ hierarchical: show-more flag
\* an odd number of toggleShowMore() calls has reached a bound toggle
OddToggles == hToggles % 2 = 1

\* the step returned a render state to the host
ReturnsRenderState ==
    /\ cCall' # cCall
    /\ cCall'.method = "hierarchicalMenu.getWidgetRenderState"

\* C32: isShowingMore starts false and is changed only by a toggleShowMore()
\* call that reaches the toggle of a render; init, render, refine,
\* getRenderState, getWidgetRenderState, getWidgetUiState,
\* getWidgetSearchParameters and dispose leave it as it is, so the flag, the
\* flag of the latest delivery and the flag of a render state handed to the
\* host are on exactly when the number of such toggles is odd.
C32_ShowMoreFrame ==
    /\ [](/\ hIsShowingMore = OddToggles
          /\ hRendered.delivered => hRendered.isShowingMore = OddToggles)
    /\ [][/\ hIsShowingMore' # hIsShowingMore =>
                 /\ hOp' = "toggleShowMore"
                 /\ hToggles' = hToggles + 1
          /\ hToggles' = hToggles => hIsShowingMore' = hIsShowingMore
          /\ ReturnsRenderState =>
                 /\ cCall'.result.isShowingMore = hIsShowingMore
                 /\ hIsShowingMore' = hIsShowingMore]_vars

\* init, render, toggleShowMore(), a refine, another render, then dispose:
\* the render after the toggle was delivered with the flag still on, and the
\* flag is on after dispose
C32_Witness ==
    /\ hPhase = "disposed"
    /\ hToggles = 1
    /\ hRenderCalls = 4
    /\ hSearches > 0
    /\ hIsShowingMore
    /\ hRendered.delivered /\ hRendered.isShowingMore

\* ------------------------------------------------------------ latest render wins
\* the items of the hierarchical widget for one context and one flag value
HItemsOf(context, isShowingMore) ==
    PrepareFacetValues(HierFacetValuesOf(context.results),
                       getLimit(isShowingMore, hParams))

\* the step is a toggleShowMore() call that reached the toggle of a render
EffectiveToggle == HStep("toggleShowMore") /\ hToggles' = hToggles + 1

\* the results of the context hold no entry for the facet, so that a render
\* with it throws before the callback
NothingToDeliver(context) == context.results.present /\ ~context.results.hasFacet

\* C33: a toggleShowMore() call re-renders with the context of the delivery
\* before it, which is that of the most recent render call (or of a toggle
\* since, which used the same), whatever contexts earlier render calls and
\* getWidgetRenderState calls had; the items of every hierarchical render and
\* re-render are those of the context of that call, and the items of every
\* rating render are those of the results and parameters of that call.  A
\* render or re-render with a context whose results hold no entry for the
\* facet delivers nothing: the callback is not called, with that context or
\* with an earlier one.
C33_LatestContextWins ==
    [][/\ EffectiveToggle =>
              IF NothingToDeliver(hToggle.renderOptions)
              THEN hRendered' = hRendered /\ hRenderCalls' = hRenderCalls
              ELSE /\ hRendered'.context = hRendered.context
                   /\ hRendered'.context = hToggle.renderOptions
                   /\ hRendered'.items = HItemsOf(hRendered.context, hIsShowingMore')
                   /\ hRenderCalls' = hRenderCalls + 1
       /\ HStep("render") =>
              /\ hToggle'.bound
              /\ IF NothingToDeliver(hToggle'.renderOptions)
                 THEN hRendered' = hRendered /\ hRenderCalls' = hRenderCalls
                 ELSE /\ hRendered'.context = hToggle'.renderOptions
                      /\ hRendered'.items
                             = HItemsOf(hRendered'.context, hIsShowingMore)
                      /\ hRenderCalls' = hRenderCalls + 1
       /\ RStep("render") =>
              /\ rRendered'.state = rState
              /\ rRendered'.items
                     = RatingItems(rRendered'.results, rState, rMax)]_vars

\* render was called with two different contexts, then toggleShowMore(): the
\* re-render shows the items of the latest context, with the flag on
C33_Witness ==
    /\ hOp = "toggleShowMore"
    /\ hSuperseded
    /\ hToggles = 1
    /\ hRenderCalls = 4
    /\ hToggle.bound /\ hRendered.context = hToggle.renderOptions
    /\ hRendered.isShowingMore
    /\ hRendered.items = HItemsOf(hRendered.context, TRUE)
    /\ Len(hRendered.items) > 0

\* ------------------------------------------------------------ refine and the latest helper
\* C34 (as claimed): a refine taken from the latest render state sends its
\* click through a sender that reads the helper of the latest render call (the
\* rating sender emits exactly when the value is not the active threshold of
\* that helper), and it toggles and searches that helper and no other.
C34_RefineOnLatestHelper ==
    [][(mOp' = "refine" /\ mVars' # mVars) =>
          /\ mClick'.helper = mLatest
          /\ mKind = "ratingMenu" =>
                 mClick'.emitted
                     = SendEventEmits(mStates[mLatest], "click", mClick'.facetValue)
          /\ mStates' = [mStates EXCEPT
                            ![mLatest] = MToggle(mKind, @, mClick'.facetValue)]
          /\ mSearches' = [mSearches EXCEPT ![mLatest] = @ + 1]]_vars

\* ------------------------------------------------------------ hierarchical: facet configuration
\* the declarations of the widget's facet in parameters
DeclarationsOf(state) ==
    SelectSeq(state.hierarchicalFacets,
              LAMBDA facet : facet.name = HierarchicalFacetName)

\* C35: the parameters getWidgetSearchParameters returns declare the widget's
\* facet exactly once, with the widget's attributes, separator, rootPath and
\* showParentLevel, whatever declaration of that name the input held; the
\* warning is raised exactly when the input declared the facet with other
\* attributes, another separator or another rootPath; the call returns.
C35_LastWriterWins ==
    cCall.method = "hierarchicalMenu.getWidgetSearchParameters" =>
        /\ ~IsError(cCall.result)
        /\ DeclarationsOf(cCall.result)
               = <<[name |-> "cat_lvl0", attributes |-> <<"cat_lvl0", "cat_lvl1">>,
                    separator |-> " > ", rootPath |-> "null",
                    showParentLevel |-> TRUE]>>
        /\ cCall.warned <=>
               \E i \in 1..Len(cCall.searchParameters.hierarchicalFacets) :
                   LET facet == cCall.searchParameters.hierarchicalFacets[i]
                   IN  /\ facet.name = "cat_lvl0"
                       /\ \/ facet.attributes # <<"cat_lvl0", "cat_lvl1">>
                          \/ facet.separator # " > "
                          \/ facet.rootPath # "null"

\* the facet was declared with a root path and refined: the warning is
\* raised and the returned declaration has the widget's root path
C35_Witness ==
    /\ cCall.method = "hierarchicalMenu.getWidgetSearchParameters"
    /\ Len(DeclarationsOf(cCall.searchParameters)) = 1
    /\ DeclarationsOf(cCall.searchParameters)[1].rootPath = "Shoes"
    /\ cCall.warned
    /\ ~IsError(cCall.result)
    /\ DeclarationsOf(cCall.result)[1].rootPath = "null"

\* the facet was declared without the parent level only: no warning, and the
\* returned declaration shows the parent level
C35_WitnessSilent ==
    /\ cCall.method = "hierarchicalMenu.getWidgetSearchParameters"
    /\ Len(DeclarationsOf(cCall.searchParameters)) = 1
    /\ ~DeclarationsOf(cCall.searchParameters)[1].showParentLevel
    /\ ~cCall.warned
    /\ DeclarationsOf(cCall.result)[1].showParentLevel

\* ------------------------------------------------------------ hierarchical: dispose
\* the declarations and the refinements of the facets of other widgets
ForeignDeclarations(state) ==
    SelectSeq(state.hierarchicalFacets,
              LAMBDA facet : facet.name # HierarchicalFacetName)
ForeignRefinements(state) ==
    [name \in DOMAIN state.hierarchicalFacetsRefinements \ {HierarchicalFacetName} |->
        state.hierarchicalFacetsRefinements[name]]
\* the bound of the parameters is above what this widget asks for: another
\* widget set or raised it
ForeignBound(state) ==
    /\ IsNumber(state.maxValuesPerFacet)
    /\ state.maxValuesPerFacet.value
           > (IF hParams.showMore THEN hParams.showMoreLimit ELSE hParams.limit)

\* C36 (as claimed): the parameters dispose returns hold neither the widget's
\* facet declaration nor its refinement; the declarations and refinements of
\* other facets are as in the input, and so is a maxValuesPerFacet bound that
\* another widget set or raised.
C36_DisposeKeepsForeign ==
    (cCall.method = "hierarchicalMenu.dispose" /\ ~IsError(cCall.result)) =>
        /\ ~isHierarchicalFacet(cCall.result, HierarchicalFacetName)
        /\ HierarchicalFacetName \notin DOMAIN cCall.result.hierarchicalFacetsRefinements
        /\ ForeignDeclarations(cCall.result) = ForeignDeclarations(cCall.state)
        /\ ForeignRefinements(cCall.result) = ForeignRefinements(cCall.state)
        /\ ForeignBound(cCall.state) =>
               cCall.result.maxValuesPerFacet = cCall.state.maxValuesPerFacet

\* C36 (amended): the parameters dispose returns hold neither the widget's
\* facet declaration nor its refinement; the declarations and refinements of
\* other facets are as in the input; maxValuesPerFacet is reset to undefined,
\* whoever set it.
C36_DisposeResetsBound ==
    (cCall.method = "hierarchicalMenu.dispose" /\ ~IsError(cCall.result)) =>
        /\ ~isHierarchicalFacet(cCall.result, HierarchicalFacetName)
        /\ HierarchicalFacetName \notin DOMAIN cCall.result.hierarchicalFacetsRefinements
        /\ ForeignDeclarations(cCall.result) = ForeignDeclarations(cCall.state)
        /\ ForeignRefinements(cCall.result) = ForeignRefinements(cCall.state)
        /\ cCall.result.maxValuesPerFacet = Undefined

\* a refined widget disposed on parameters that hold another widget's facet,
\* its refinement and its bound: facet and refinement of the other widget are
\* kept, the bound is gone
C36_Witness ==
    /\ cCall.method = "hierarchicalMenu.dispose"
    /\ ~IsError(cCall.result)
    /\ hPhase = "disposed"
    /\ getHierarchicalRefinement(cCall.state, HierarchicalFacetName)
           = <<"Shoes > Sneakers">>
    /\ ForeignBound(cCall.state)
    /\ Len(ForeignDeclarations(cCall.state)) = 1
    /\ ForeignRefinements(cCall.result) = [brand_lvl0 |-> <<"Apple">>]
    /\ cCall.result.maxValuesPerFacet = Undefined

\* ------------------------------------------------------------ snapshots and searches
\* the methods that are handed the parameters next to `searchParameters`
ParameterMethods ==
    {"ratingMenu.getWidgetUiState", "ratingMenu.getWidgetSearchParameters",
     "hierarchicalMenu.getWidgetUiState",
     "hierarchicalMenu.getWidgetSearchParameters"}
\* the parameters of the helper of the widget that exists
HelperState == IF rPhase = "none" THEN hState ELSE rState

\* C37: the helper's parameters and its search count change in refine steps
\* only, one search per refine; a refine leaves the render state delivered
\* before it, with the parameters snapshot it holds, and the result of the
\* latest method call as they were; getWidgetUiState,
\* getWidgetSearchParameters, createURL and dispose leave the parameters they
\* were handed in the helper as they found them.
C37_OnlyRefineChangesHelper ==
    [][/\ (rState' # rState \/ rSearches' # rSearches) =>
              /\ rOp' = "refine"
              /\ rSearches' = rSearches + 1
       /\ (hState' # hState \/ hSearches' # hSearches) =>
              /\ hOp' = "refine"
              /\ hSearches' = hSearches + 1
       /\ (RStep("refine") \/ HStep("refine")) =>
              /\ rRendered' = rRendered
              /\ hRendered' = hRendered
              /\ cCall' = cCall
       /\ cCall' # cCall =>
              /\ cCall'.method \in ParameterMethods =>
                     /\ cCall'.searchParameters = HelperState
                     /\ HelperState' = HelperState
              /\ cCall'.method \in {"ratingMenu.dispose", "hierarchicalMenu.dispose"} =>
                     /\ cCall'.state = HelperState
                     /\ HelperState' = HelperState
              /\ cCall'.method = "ratingMenu.createURL" =>
                     /\ cCall'.state = rRendered.state
                     /\ rRendered' = rRendered
                     /\ rState' = rState]_vars

\* a rating widget rendered, refined and disposed: the render state still
\* holds the parameters of before the refine, the helper those of after it,
\* and dispose returned other parameters than it was handed
C37_Witness ==
    /\ rPhase = "disposed"
    /\ rSearches = 1
    /\ rRendered.delivered
    /\ rRendered.state # rState
    /\ cCall.method = "ratingMenu.dispose"
    /\ cCall.state = rState
    /\ cCall.result # rState

====
